---- MODULE Spec2Model ----
(***************************************************************************)
(* A model of star-destroyer (zestyping/star-destroyer):                   *)
(*   star_destroyer.py  ImportMap, UsageMap, the star destroyers, the      *)
(*                      edit applier and the scan()/edit() drivers;        *)
(*   scanner.py         NameResolver's origin chase.                       *)
(*                                                                         *)
(* Python strings are sequences of one-character strings, so that split,   *)
(* join, rsplit, "in" and replace are computed as the code computes them.  *)
(* None is the empty tuple and a present optional value v is <<v>>.        *)
(***************************************************************************)
EXTENDS Integers, Sequences, FiniteSets, TLC

VARIABLES
    \* ---- the pipeline: scan() then edit() (star_destroyer.py) ----
    modules,        \* the catalog: sequence of [pkgpath, modpath, path, node]
    world,          \* collaborators: [exists: set of modpaths, exports: modpath -> optional list]
    method,         \* edit(): 'replace', 'qualify' or another tag
    module_aliases, \* edit(**kwd): alias table, last segment -> alias
    dry_run,        \* edit(dry_run)
    pc,             \* position of the driver
    idx,            \* index of the next module of the current loop
    import_map,     \* ImportMap.map      {modpath: {name: {origin}}}
    star_names,     \* ImportMap.star_names {modpath: [name]}
    loads,          \* calls made to import_module, in order
    usage_map,      \* UsageMap.map       {modpath: {origin}}
    all_used,       \* StarDestroyer.all_used
    files,          \* path -> list of lines, the contents on disk
    edits,          \* one record per edit_module call made so far
    \* ---- one call of get_origins (either class) ----
    ch_pc, ch_query, ch_stack, ch_origins,
    \* ---- one call of resolve_frompath ----
    rf_pc, rf_args, rf_result

pvars == <<modules, world, method, module_aliases, dry_run, pc, idx, import_map,
           star_names, loads, usage_map, all_used, files, edits>>
cvars == <<ch_pc, ch_query, ch_stack, ch_origins>>
rvars == <<rf_pc, rf_args, rf_result>>
vars == <<pvars, cvars, rvars>>

(***************************************************************************)
(* Python values and string operations                                     *)
(***************************************************************************)
None == <<>>
Some(v) == <<v>>
IsNone(o) == o = <<>>
Val(o) == o[1]

EmptyDict == <<>>

Min(a, b) == IF a < b THEN a ELSE b
Max(a, b) == IF a > b THEN a ELSE b

\* s[i:] and s[:i] for 0 <= i (Python clamps i to len(s))
From(s, i) == SubSeq(s, Min(i, Len(s)) + 1, Len(s))
Upto(s, i) == SubSeq(s, 1, Min(i, Len(s)))

\* lst[:-n] for n >= 1 (Python clamps: an n beyond the length gives [])
DropLast(lst, n) == SubSeq(lst, 1, Max(Len(lst) - n, 0))

\* '.' in s
HasDot(s) == \E i \in 1..Len(s) : s[i] = "."

\* s.split('.')
RECURSIVE Split(_)
Split(s) ==
    IF ~HasDot(s) THEN <<s>>
    ELSE LET i == CHOOSE k \in 1..Len(s) : s[k] = "." /\ \A j \in 1..(k-1) : s[j] # "."
         IN  <<SubSeq(s, 1, i - 1)>> \o Split(SubSeq(s, i + 1, Len(s)))

\* sep.join(parts)
RECURSIVE JoinWith(_, _)
JoinWith(sep, parts) ==
    IF parts = <<>> THEN <<>>
    ELSE IF Len(parts) = 1 THEN parts[1]
    ELSE parts[1] \o sep \o JoinWith(sep, Tail(parts))

Join(parts) == JoinWith(<<".">>, parts)

\* s.rsplit('.', 1) for an s that contains a dot
RSplit(s) ==
    LET i == CHOOSE k \in 1..Len(s) : s[k] = "." /\ \A j \in (k+1)..Len(s) : s[j] # "."
    IN  <<SubSeq(s, 1, i - 1), SubSeq(s, i + 1, Len(s))>>

\* a + '.' + b
Dotted(a, b) == a \o <<".">> \o b

\* sub in s   (substring test)
StartsAt(s, sub, i) == i + Len(sub) - 1 <= Len(s) /\ SubSeq(s, i, i + Len(sub) - 1) = sub
Contains(s, sub) == \E i \in 1..(Len(s) + 1) : StartsAt(s, sub, i)

\* s.replace(old, new): every non-overlapping occurrence, left to right (old non-empty)
RECURSIVE Replace(_, _, _)
Replace(s, old, new) ==
    IF s = <<>> THEN <<>>
    ELSE IF StartsAt(s, old, 1) THEN new \o Replace(From(s, Len(old)), old, new)
    ELSE <<s[1]>> \o Replace(Tail(s), old, new)

\* the elements of a list, as a set
Elems(lst) == {lst[i] : i \in 1..Len(lst)}

\* '.' * n
RECURSIVE Dots(_)
Dots(n) == IF n = 0 THEN <<>> ELSE <<".">> \o Dots(n - 1)

(***************************************************************************)
(* resolve_frompath                                                        *)
(***************************************************************************)
\* relpath is an optional string: None, or Some(s) with s possibly ''
\* parts[:-(level + 1)]: one segment too many is dropped
ResolveKeep_OneMore(parts, level) == DropLast(parts, level + 1)

\* parts[:-level], parts being the segments of pkgpath and the filler '_'
ResolveKeep(parts, level) == DropLast(parts, level)

resolve_frompath(pkgpath, relpath, level) ==
    IF level = 0 THEN Val(relpath)
    ELSE LET parts == Split(pkgpath) \o << <<"_">> >>
             rel   == IF ~IsNone(relpath) /\ Val(relpath) # <<>>
                      THEN Split(Val(relpath)) ELSE <<>>
         IN  Join(ResolveKeep(parts, level) \o rel)

(***************************************************************************)
(* ImportMap.get_origins                                                   *)
(***************************************************************************)
ImportMapGetOrigins(map, modpath, name) ==
    IF modpath \in DOMAIN map /\ name \in DOMAIN map[modpath]
    THEN map[modpath][name] ELSE {}

\* get_origins written with setdefault: a lookup leaves an empty entry behind
ImportMapAfterGetOrigins_SetDefault(map, modpath, name) ==
    LET inner  == IF modpath \in DOMAIN map THEN map[modpath] ELSE EmptyDict
        inner2 == [n \in DOMAIN inner \cup {name} |->
                      IF n \in DOMAIN inner THEN inner[n] ELSE {}]
    IN  [m \in DOMAIN map \cup {modpath} |-> IF m = modpath THEN inner2 ELSE map[m]]

\* ImportMap.get_origins: self.map after the call (dict.get stores nothing)
ImportMapAfterGetOrigins(map, modpath, name) == map

\* ImportMap.add: map.setdefault(modpath, {}).setdefault(name, set()).add(origin)
ImportMapAdd(map, modpath, name, origin) ==
    LET inner == IF modpath \in DOMAIN map THEN map[modpath] ELSE EmptyDict
        old   == IF name \in DOMAIN inner THEN inner[name] ELSE {}
        inner2 == [n \in DOMAIN inner \cup {name} |->
                      IF n = name THEN old \cup {origin} ELSE inner[n]]
    IN  [m \in DOMAIN map \cup {modpath} |-> IF m = modpath THEN inner2 ELSE map[m]]

(***************************************************************************)
(* One call of get_origins(modpath, name), step by step.                   *)
(* A frame is one activation of the recursive function; "todo" holds the   *)
(* origins its for-loop has not yet drawn (a set iterates in any order).   *)
(***************************************************************************)
MaxBindings == 3
RecursionLimit == 6

ChaseMods == { <<"a">>, <<"b">> }
ChaseNames == { <<"x">>, <<"y">> }
ChaseOrigins == { <<"a", ".", "x">>, <<"b", ".", "x">>, <<"a", ".", "y">>, <<"c">> }
Bindings == ChaseMods \X ChaseNames \X ChaseOrigins

RECURSIVE MapOfBindings(_)
MapOfBindings(bs) ==
    IF bs = <<>> THEN EmptyDict
    ELSE ImportMapAdd(MapOfBindings(Tail(bs)), bs[1][1], bs[1][2], bs[1][3])

ChaseMaps == UNION { {MapOfBindings(bs) : bs \in [1..k -> Bindings]} : k \in 0..MaxBindings }

AllOrigins(map) == UNION { UNION { map[m][n] : n \in DOMAIN map[m] } : m \in DOMAIN map }

PipelineIdle ==
    /\ modules = <<>> /\ world = [exists |-> {}, exports |-> EmptyDict]
    /\ method = <<>> /\ module_aliases = EmptyDict /\ dry_run = TRUE
    /\ pc = "idle" /\ idx = 1 /\ star_names = EmptyDict /\ loads = <<>>
    /\ usage_map = EmptyDict /\ all_used = {} /\ files = EmptyDict /\ edits = <<>>

ResolveIdle == rf_pc = "idle" /\ rf_args = <<>> /\ rf_result = <<>>

ChaseIdle == ch_pc = "idle" /\ ch_query = <<>> /\ ch_stack = <<>> /\ ch_origins = {}

InitChase ==
    /\ PipelineIdle /\ ResolveIdle
    /\ import_map \in ChaseMaps
    /\ ch_query \in ChaseMods \X ChaseNames
    /\ ch_pc = "call"
    /\ ch_stack = <<>>
    /\ ch_origins = {}

ChaseFrame == <<pvars, rvars, ch_query>>

Top(stack) == stack[Len(stack)]
Pop(stack) == SubSeq(stack, 1, Len(stack) - 1)
SetTop(stack, f) == [stack EXCEPT ![Len(stack)] = f]


\* walk_origins without its guard
WalkNotSeen_Unguarded(origin, origins) == TRUE

\* ---- UsageMap.scan_module.get_origins (star_destroyer.py) ----
\* "if origin not in origins": origins is the one set of the enclosing get_origins
WalkNotSeen(origin, origins) == origin \notin origins

\* get_origins: origins = set(); walk_origins(modpath, name)
UsageGetOriginsCall ==
    /\ ch_pc = "call"
    /\ ch_origins' = {}
    /\ ch_stack' = << [todo |-> ImportMapGetOrigins(import_map, ch_query[1], ch_query[2])] >>
    /\ ch_pc' = "walk"
    /\ UNCHANGED ChaseFrame

\* one iteration of walk_origins' for-loop in the innermost activation
WalkOriginsStep ==
    /\ ch_pc = "walk" /\ ch_stack # <<>> /\ Top(ch_stack).todo # {}
    /\ \E origin \in Top(ch_stack).todo :
         LET rest == SetTop(ch_stack, [todo |-> Top(ch_stack).todo \ {origin}])
         IN  IF WalkNotSeen(origin, ch_origins)
             THEN /\ ch_origins' = ch_origins \cup {origin}
                  /\ IF HasDot(origin)
                     THEN IF Len(ch_stack) >= RecursionLimit
                          THEN ch_pc' = "RecursionError" /\ ch_stack' = rest
                          ELSE /\ ch_stack' = Append(rest,
                                      [todo |-> ImportMapGetOrigins(import_map,
                                                    RSplit(origin)[1], RSplit(origin)[2])])
                               /\ ch_pc' = "walk"
                     ELSE ch_stack' = rest /\ ch_pc' = "walk"
             ELSE ch_origins' = ch_origins /\ ch_stack' = rest /\ ch_pc' = "walk"
    /\ UNCHANGED ChaseFrame

\* walk_origins' for-loop is exhausted: the activation returns
WalkOriginsReturn ==
    /\ ch_pc = "walk" /\ ch_stack # <<>> /\ Top(ch_stack).todo = {}
    /\ ch_stack' = Pop(ch_stack)
    /\ UNCHANGED <<ch_pc, ch_origins, ChaseFrame>>

\* get_origins: return origins
UsageGetOriginsReturn ==
    /\ ch_pc = "walk" /\ ch_stack = <<>>
    /\ ch_pc' = "returned"
    /\ UNCHANGED <<ch_stack, ch_origins, ChaseFrame>>

NextUsageChase ==
    \/ UsageGetOriginsCall
    \/ WalkOriginsStep
    \/ WalkOriginsReturn
    \/ UsageGetOriginsReturn

SpecUsageChase == InitChase /\ [][NextUsageChase]_vars /\ WF_vars(NextUsageChase)

\* ---- NameResolver.scan_module.get_origins (scanner.py) ----
\* "if origin not in origins": origins is the set of this activation only
ResolverNotSeen(origin, origins) == origin \notin origins

ResolverFrame(modpath, name) ==
    [modpath |-> modpath, name |-> name,
     todo |-> ImportMapGetOrigins(import_map, modpath, name), origins |-> {}]

\* get_origins(modpath, name) is entered: origins = set()
ResolverGetOriginsCall ==
    /\ ch_pc = "call"
    /\ ch_stack' = << ResolverFrame(ch_query[1], ch_query[2]) >>
    /\ ch_pc' = "loop"
    /\ UNCHANGED <<ch_origins, ChaseFrame>>

\* one iteration of the for-loop of the innermost activation
ResolverLoopStep ==
    /\ ch_pc = "loop" /\ ch_stack # <<>> /\ Top(ch_stack).todo # {}
    /\ \E origin \in Top(ch_stack).todo :
         LET f    == Top(ch_stack)
             skip == SetTop(ch_stack, [f EXCEPT !.todo = @ \ {origin}])
             took == SetTop(ch_stack, [f EXCEPT !.todo = @ \ {origin},
                                                !.origins = @ \cup {origin}])
         IN  IF ResolverNotSeen(origin, f.origins)
             THEN IF HasDot(origin)
                  THEN IF Len(ch_stack) >= RecursionLimit
                       THEN ch_pc' = "RecursionError" /\ ch_stack' = took
                       ELSE /\ ch_stack' = Append(took,
                                   ResolverFrame(RSplit(origin)[1], RSplit(origin)[2]))
                            /\ ch_pc' = "loop"
                  ELSE ch_stack' = took /\ ch_pc' = "loop"
             ELSE ch_stack' = skip /\ ch_pc' = "loop"
    /\ UNCHANGED <<ch_origins, ChaseFrame>>

\* the for-loop is exhausted: return origins; the caller does origins.update(...)
ResolverGetOriginsReturn ==
    /\ ch_pc = "loop" /\ ch_stack # <<>> /\ Top(ch_stack).todo = {}
    /\ IF Len(ch_stack) = 1
       THEN /\ ch_origins' = Top(ch_stack).origins
            /\ ch_stack' = <<>>
            /\ ch_pc' = "returned"
       ELSE LET caller == ch_stack[Len(ch_stack) - 1]
            IN  /\ ch_stack' = SetTop(Pop(ch_stack),
                        [caller EXCEPT !.origins = @ \cup Top(ch_stack).origins])
                /\ UNCHANGED <<ch_pc, ch_origins>>
    /\ UNCHANGED ChaseFrame

NextResolverChase ==
    \/ ResolverGetOriginsCall
    \/ ResolverLoopStep
    \/ ResolverGetOriginsReturn

SpecResolverChase == InitChase /\ [][NextResolverChase]_vars /\ WF_vars(NextResolverChase)

(***************************************************************************)
(* One call of resolve_frompath(pkgpath, relpath, level)                   *)
(***************************************************************************)
MaxLevel == 4

PkgPaths == { <<>>, <<"a">>, <<"a", ".", "b">>, <<"a", ".", "b", ".", "c">> }
RelPaths == { None, Some(<<>>), Some(<<"m">>), Some(<<"m", ".", "n">>) }

InitResolve ==
    /\ PipelineIdle /\ ChaseIdle /\ import_map = EmptyDict
    /\ rf_pc = "call"
    /\ rf_args \in { a \in PkgPaths \X RelPaths \X (0..MaxLevel) :
                        a[3] = 0 => ~IsNone(a[2]) /\ Val(a[2]) # <<>> }
    /\ rf_result = <<>>

\* the function never raises: every call returns a string
ResolveFrompath ==
    /\ rf_pc = "call"
    /\ rf_result' = resolve_frompath(rf_args[1], rf_args[2], rf_args[3])
    /\ rf_pc' = "returned"
    /\ UNCHANGED <<rf_args, pvars, cvars>>

NextResolve == ResolveFrompath

SpecResolve == InitResolve /\ [][NextResolve]_vars

(***************************************************************************)
(* Syntax trees (the ast module, consumed as built by ast.parse).          *)
(*   Name       [type, id, ctx, lineno, col_offset]                        *)
(*   Attribute  [type, value, attr, ctx, lineno, col_offset]               *)
(*   Import     [type, names, lineno, col_offset]                          *)
(*   ImportFrom [type, module, names, level, lineno, col_offset]           *)
(*   alias      [name, asname]                                             *)
(*   any other  [type, children]: its child nodes in field order           *)
(* Child nodes that hold no node of the four kinds above (Load, Store,     *)
(* operators, constants) are left out: every visitor passes over them.     *)
(***************************************************************************)
NameNode(id, ctx, lineno, col) ==
    [type |-> "Name", id |-> id, ctx |-> ctx, lineno |-> lineno, col_offset |-> col]
AttributeNode(value, attr, ctx, lineno, col) ==
    [type |-> "Attribute", value |-> value, attr |-> attr, ctx |-> ctx,
     lineno |-> lineno, col_offset |-> col]
Alias(name, asname) == [name |-> name, asname |-> asname]
ImportNode(names, lineno, col) ==
    [type |-> "Import", names |-> names, lineno |-> lineno, col_offset |-> col]
ImportFromNode(module, names, level, lineno, col) ==
    [type |-> "ImportFrom", module |-> module, names |-> names, level |-> level,
     lineno |-> lineno, col_offset |-> col]
Node(type, children) == [type |-> type, children |-> children]

node_type(node) == node.type

\* for_each_child: the children the callback is called for, in order
Children(node) ==
    CASE node_type(node) = "Name" -> <<>>
      [] node_type(node) = "Attribute" -> <<node.value>>
      [] node_type(node) \in {"Import", "ImportFrom"} -> <<>>
      [] OTHER -> node.children

\* node_to_text
AliasText(a) ==
    IF ~IsNone(a.asname) THEN a.name \o <<" ", "a", "s", " ">> \o Val(a.asname) ELSE a.name

RECURSIVE AliasTexts(_)
AliasTexts(names) ==
    IF names = <<>> THEN <<>> ELSE <<AliasText(names[1])>> \o AliasTexts(Tail(names))

RECURSIVE node_to_text(_)
node_to_text(node) ==
    IF IsNone(node) THEN <<>>
    ELSE LET n == Val(node) IN
      CASE node_type(n) = "ImportFrom" ->
               <<"f", "r", "o", "m", " ">>
               \o Dots(n.level) \o (IF ~IsNone(n.module) THEN Val(n.module) ELSE <<>>)
               \o <<" ", "i", "m", "p", "o", "r", "t", " ">>
               \o JoinWith(<<",", " ">>, AliasTexts(n.names))
        [] node_type(n) = "Import" ->
               <<"i", "m", "p", "o", "r", "t", " ">>
               \o JoinWith(<<",", " ">>, AliasTexts(n.names))
        [] node_type(n) = "Name" -> n.id
        [] node_type(n) = "Attribute" ->
               node_to_text(Some(n.value)) \o <<".">> \o n.attr

(***************************************************************************)
(* sorted() on a list of strings                                           *)
(***************************************************************************)
OrdTable == <<"*", ",", ".", "_", "a", "b", "c", "d", "e", "f", "g", "h", "i", "j",
              "k", "l", "m", "n", "o", "p", "q", "r", "s", "t", "u", "v", "w", "x",
              "y", "z">>
Ord(c) == CHOOSE i \in 1..Len(OrdTable) : OrdTable[i] = c

RECURSIVE StrLess(_, _)
StrLess(s, t) ==
    IF t = <<>> THEN FALSE
    ELSE IF s = <<>> THEN TRUE
    ELSE IF s[1] = t[1] THEN StrLess(Tail(s), Tail(t))
    ELSE Ord(s[1]) < Ord(t[1])

RECURSIVE Insert(_, _)
Insert(x, lst) ==
    IF lst = <<>> THEN <<x>>
    ELSE IF StrLess(x, lst[1]) THEN <<x>> \o lst
    ELSE <<lst[1]>> \o Insert(x, Tail(lst))

RECURSIVE Sorted(_)
Sorted(lst) == IF lst = <<>> THEN <<>> ELSE Insert(lst[1], Sorted(Tail(lst)))

(***************************************************************************)
(* ImportMap (star_destroyer.py)                                           *)
(* The collaborators find_module and import_module are read from w:        *)
(*   w.exists   the module paths find_module finds;                        *)
(*   w.exports  for a module that can be imported, the list                *)
(*              getattr(module, '__all__', [public names of dir(module)]). *)
(* st is the ImportMap object: [map, star_names, loads].                   *)
(***************************************************************************)
find_module(w, modpath) == modpath \in w.exists

\* what get_star_names stores for a module it has just loaded
StarNamesOf(w, modpath) ==
    IF modpath \in DOMAIN w.exports THEN Sorted(w.exports[modpath]) ELSE <<>>

\* the cache test left out: every call loads
StarNamesMiss_Always(st, modpath) == TRUE

\* "if modpath not in self.star_names"
StarNamesMiss(st, modpath) == modpath \notin DOMAIN st.star_names

\* get_star_names: the ImportMap after the call (the cache may have grown)
get_star_names_st(st, w, modpath) ==
    IF StarNamesMiss(st, modpath)
    THEN [st EXCEPT !.loads = Append(@, modpath),
                    !.star_names = [m \in DOMAIN @ \cup {modpath} |->
                                       IF m = modpath THEN StarNamesOf(w, modpath) ELSE @[m]]]
    ELSE st

\* get_star_names: the list returned
get_star_names(st, w, modpath) == get_star_names_st(st, w, modpath).star_names[modpath]

add(st, modpath, name, origin) ==
    [st EXCEPT !.map = ImportMapAdd(@, modpath, name, origin)]

\* add_package_origins: the loop from parts[k] on, with parent = '.'.join(parts[:k-1])
RECURSIVE PackageOriginsFrom(_, _, _, _, _)
PackageOriginsFrom(st, w, parts, k, parent) ==
    IF k > Len(parts) THEN st
    ELSE LET child == Dotted(parent, parts[k])
             st2   == IF find_module(w, child) THEN add(st, parent, parts[k], child) ELSE st
         IN  PackageOriginsFrom(st2, w, parts, k + 1, child)

add_package_origins(st, w, modpath) ==
    LET parts == Split(modpath) IN PackageOriginsFrom(st, w, parts, 2, parts[1])

\* the alias ignored: import X as Y binds the top segment of X like import X
ImportBinding_TopName(b) == <<Split(b.name)[1], Split(b.name)[1]>>

\* scan_imports, Import branch: the <<name, origin>> one binding adds to the
\* bucket of the scanned module ("if asname: ... else: ...")
ImportBinding(b) ==
    IF ~IsNone(b.asname) /\ Val(b.asname) # <<>>
    THEN <<Val(b.asname), b.name>>
    ELSE <<Split(b.name)[1], Split(b.name)[1]>>

\* scan_imports, Import branch: the bindings of one statement
RECURSIVE ScanImportBindings(_, _, _, _)
ScanImportBindings(st, w, modpath, names) ==
    IF names = <<>> THEN st
    ELSE LET b   == names[1]
             st1 == add(st, modpath, ImportBinding(b)[1], ImportBinding(b)[2])
         IN  ScanImportBindings(add_package_origins(st1, w, b.name), w, modpath, Tail(names))

\* scan_imports, ImportFrom branch, '*': self.add for each star name
RECURSIVE AddStarNames(_, _, _, _)
AddStarNames(st, modpath, frompath, names) ==
    IF names = <<>> THEN st
    ELSE AddStarNames(add(st, modpath, names[1], Dotted(frompath, names[1])),
                      modpath, frompath, Tail(names))

\* scan_imports, ImportFrom branch: the bindings of one statement
RECURSIVE ScanFromBindings(_, _, _, _, _)
ScanFromBindings(st, w, modpath, frompath, names) ==
    IF names = <<>> THEN st
    ELSE LET b   == names[1]
             st1 == IF b.name = <<"*">>
                    THEN add_package_origins(
                             AddStarNames(get_star_names_st(st, w, frompath), modpath,
                                          frompath, get_star_names(st, w, frompath)),
                             w, frompath)
                    ELSE add_package_origins(
                             add(st, modpath,
                                 IF ~IsNone(b.asname) /\ Val(b.asname) # <<>>
                                 THEN Val(b.asname) ELSE b.name,
                                 Dotted(frompath, b.name)),
                             w, Dotted(frompath, b.name))
         IN  ScanFromBindings(st1, w, modpath, frompath, Tail(names))

\* scan_imports over a list of sibling nodes, in order
RECURSIVE ScanImports(_, _, _, _, _)
ScanImports(st, w, pkgpath, modpath, nodes) ==
    IF nodes = <<>> THEN st
    ELSE LET node == nodes[1]
             st1  == CASE node_type(node) = "Import" ->
                              ScanImportBindings(st, w, modpath, node.names)
                       [] node_type(node) = "ImportFrom" ->
                              ScanFromBindings(st, w, modpath,
                                  resolve_frompath(pkgpath, node.module, node.level),
                                  node.names)
                       [] OTHER -> ScanImports(st, w, pkgpath, modpath, Children(node))
         IN  ScanImports(st1, w, pkgpath, modpath, Tail(nodes))

\* ImportMap.scan_module
ImportMapScan(st, w, pkgpath, modpath, node) ==
    ScanImports(st, w, pkgpath, modpath, Children(node))

(***************************************************************************)
(* UsageMap (star_destroyer.py)                                            *)
(***************************************************************************)
\* walk_origins over the origins its for-loop still has to draw, threading the
\* set "origins" of the enclosing get_origins (the result is the same for every
\* iteration order: the set of origins reachable through the map)
RECURSIVE WalkOrigins(_, _, _)
WalkOrigins(map, todo, origins) ==
    IF todo = {} THEN origins
    ELSE LET origin == CHOOSE o \in todo : TRUE
             after  == IF WalkNotSeen(origin, origins)
                       THEN IF HasDot(origin)
                            THEN WalkOrigins(map,
                                     ImportMapGetOrigins(map, RSplit(origin)[1], RSplit(origin)[2]),
                                     origins \cup {origin})
                            ELSE origins \cup {origin}
                       ELSE origins
         IN  WalkOrigins(map, todo \ {origin}, after)

\* UsageMap.scan_module.get_origins
get_origins(map, modpath, name) ==
    WalkOrigins(map, ImportMapGetOrigins(map, modpath, name), {})

\* a loaded name taken for its own module-qualified origin only, without the chase
NameOrigins_OwnOnly(map, modpath, id) == {Dotted(modpath, id)}

\* get_origins_for_node, Name branch: {modpath + '.' + node.id} | get_origins(...)
NameOrigins(map, modpath, id) ==
    {Dotted(modpath, id)} \cup get_origins(map, modpath, id)

RECURSIVE get_origins_for_node(_, _, _)
get_origins_for_node(map, modpath, node) ==
    CASE node_type(node) = "Name" /\ node.ctx = "Load" ->
             NameOrigins(map, modpath, node.id)
      [] node_type(node) = "Attribute" /\ node.ctx = "Load" ->
             UNION { {Dotted(parent, node.attr)} \cup get_origins(map, parent, node.attr) :
                     parent \in get_origins_for_node(map, modpath, node.value) }
      [] OTHER -> {}

RECURSIVE get_origins_used_by_node(_, _, _)
get_origins_used_by_node(map, modpath, node) ==
    CASE node_type(node) = "Name" -> get_origins_for_node(map, modpath, node)
      [] node_type(node) = "Attribute" ->
             get_origins_used_by_node(map, modpath, node.value)
             \cup get_origins_for_node(map, modpath, node)
      [] OTHER -> {}

\* scan_loads stops at a node it has handled: "else: for_each_child(...)"
ScanLoadsDescends_OnlyUnhandled(node) == node_type(node) \notin {"Name", "Attribute"}

\* whether scan_loads goes on into the children of a node it has just handled
\* (for_each_child is called for every node)
ScanLoadsDescends(node) == TRUE

\* the (modpath, name) pairs one get_origins(modpath, name) looks up in the
\* import map: one lookup per activation of walk_origins
ChaseLookups(map, modpath, name) ==
    {<<modpath, name>>}
    \cup {RSplit(o) : o \in {x \in get_origins(map, modpath, name) : HasDot(x)}}

\* the lookups of get_origins_for_node(node)
RECURSIVE LookupsForNode(_, _, _)
LookupsForNode(map, modpath, node) ==
    CASE node_type(node) = "Name" /\ node.ctx = "Load" ->
             ChaseLookups(map, modpath, node.id)
      [] node_type(node) = "Attribute" /\ node.ctx = "Load" ->
             LookupsForNode(map, modpath, node.value)
             \cup UNION { ChaseLookups(map, parent, node.attr) :
                          parent \in get_origins_for_node(map, modpath, node.value) }
      [] OTHER -> {}

\* the lookups of get_origins_used_by_node(node)
RECURSIVE LookupsUsedByNode(_, _, _)
LookupsUsedByNode(map, modpath, node) ==
    CASE node_type(node) = "Name" -> LookupsForNode(map, modpath, node)
      [] node_type(node) = "Attribute" ->
             LookupsUsedByNode(map, modpath, node.value)
             \cup LookupsForNode(map, modpath, node)
      [] OTHER -> {}

\* the lookups of scan_loads(node)
RECURSIVE ScanLookups(_, _, _)
ScanLookups(map, modpath, node) ==
    (IF node_type(node) \in {"Name", "Attribute"}
     THEN LookupsUsedByNode(map, modpath, node) ELSE {})
    \cup (IF ScanLoadsDescends(node)
          THEN UNION { ScanLookups(map, modpath, Children(node)[i]) :
                       i \in 1..Len(Children(node)) }
          ELSE {})

\* the import map after a set of get_origins lookups
RECURSIVE MapAfterLookups(_, _)
MapAfterLookups(map, lookups) ==
    IF lookups = {} THEN map
    ELSE LET l == CHOOSE x \in lookups : TRUE
         IN  MapAfterLookups(ImportMapAfterGetOrigins(map, l[1], l[2]), lookups \ {l})

\* UsageMap.scan_module: self.import_map.map after the scan
UsageMapScanImportMap(map, modpath, node) ==
    MapAfterLookups(map, UNION { ScanLookups(map, modpath, Children(node)[i]) :
                                 i \in 1..Len(Children(node)) })


\* scan_loads: what it adds to used_origins for a node and everything below it
RECURSIVE scan_loads(_, _, _)
scan_loads(map, modpath, node) ==
    (IF node_type(node) \in {"Name", "Attribute"}
     THEN get_origins_used_by_node(map, modpath, node) ELSE {})
    \cup (IF ScanLoadsDescends(node)
          THEN UNION { scan_loads(map, modpath, Children(node)[i]) :
                       i \in 1..Len(Children(node)) }
          ELSE {})


\* range(2, len(parts)): the top-level prefix is skipped
PrefixRange_FromTwo(parts) == 2..(Len(parts) - 1)

\* the prefixes '.'.join(parts[:i]) for i in range(1, len(parts))
PrefixRange(parts) == 1..(Len(parts) - 1)

intermediate_origins(used_origins) ==
    UNION { { Join(SubSeq(Split(origin), 1, i)) : i \in PrefixRange(Split(origin)) } :
            origin \in used_origins }

\* UsageMap.scan_module: the new value of self.map
UsageMapScan(umap, map, modpath, node) ==
    LET before == IF modpath \in DOMAIN umap THEN umap[modpath] ELSE {}
        used   == before \cup UNION { scan_loads(map, modpath, Children(node)[i]) :
                                      i \in 1..Len(Children(node)) }
        closed == used \cup intermediate_origins(used)
    IN  [m \in DOMAIN umap \cup {modpath} |-> IF m = modpath THEN closed ELSE umap[m]]

\* UsageMap.get_used_origins
get_used_origins(umap, modpath) == IF modpath \in DOMAIN umap THEN umap[modpath] ELSE {}

(***************************************************************************)
(* The star destroyers (star_destroyer.py)                                 *)
(***************************************************************************)
\* StarImportCollector: the star imports of a tree, in visiting order
IsStarImport(node) ==
    /\ node_type(node) = "ImportFrom"
    /\ Len(node.names) = 1 /\ node.names[1].name = <<"*">>

RECURSIVE CollectStarImports(_)
CollectStarImports(nodes) ==
    IF nodes = <<>> THEN <<>>
    ELSE LET node == nodes[1]
             here == IF node_type(node) = "ImportFrom"
                     THEN (IF IsStarImport(node) THEN <<node>> ELSE <<>>)
                     ELSE CollectStarImports(Children(node))
         IN  here \o CollectStarImports(Tail(nodes))

\* "if modpath + '.' + name in all_used"
IsKept(used, modpath, name) == Dotted(modpath, name) \in used

RECURSIVE FilterKept(_, _, _)
FilterKept(names, used, modpath) ==
    IF names = <<>> THEN <<>>
    ELSE (IF IsKept(used, modpath, names[1]) THEN <<names[1]>> ELSE <<>>)
         \o FilterKept(Tail(names), used, modpath)

\* BaseStarDestroyer.__init__: _star_provided_names as a list of [node, names] in
\* insertion order, and the ImportMap after the get_star_names calls.
RECURSIVE StarProvidedNames(_, _, _, _, _, _)
StarProvidedNames(st, w, used, pkgpath, modpath, star_imports) ==
    IF star_imports = <<>> THEN [st |-> st, provided |-> <<>>]
    ELSE LET node     == star_imports[1]
             frompath == resolve_frompath(pkgpath, node.module, node.level)
             names    == FilterKept(get_star_names(st, w, frompath), used, modpath)
             rest     == StarProvidedNames(get_star_names_st(st, w, frompath), w, used,
                                           pkgpath, modpath, Tail(star_imports))
         IN  [st |-> rest.st,
              provided |-> <<[node |-> node, names |-> names]>> \o rest.provided]

\* self._star_provided_names[node]
ProvidedFor(provided, node) ==
    provided[CHOOSE i \in 1..Len(provided) : provided[i].node = node].names

InProvided(provided, node) == \E i \in 1..Len(provided) : provided[i].node = node

\* self._provided_names
ProvidedNames(provided) == UNION { Elems(provided[i].names) : i \in 1..Len(provided) }

\* self._module_aliases.get(key): an optional string
AliasGet(aliases, key) == IF key \in DOMAIN aliases THEN Some(aliases[key]) ELSE None

\* the last element of a non-empty list
Last(lst) == lst[Len(lst)]

RECURSIVE NamesToAliases(_)
NamesToAliases(names) ==
    IF names = <<>> THEN <<>>
    ELSE <<Alias(names[1], None)>> \o NamesToAliases(Tail(names))

RECURSIVE NonEmptyParts(_)
NonEmptyParts(parts) ==
    IF parts = <<>> THEN <<>>
    ELSE (IF parts[1] # <<>> THEN <<parts[1]>> ELSE <<>>) \o NonEmptyParts(Tail(parts))

\* The visitors return a list of results: a change [old, new] (new is an optional
\* node), or the exception the visit raised, [exc]; nothing after an exception.
Change(old, new) == [old |-> old, new |-> new]
Raised(exc) == [exc |-> exc]
IsRaised(r) == "exc" \in DOMAIN r

\* what a visit_ImportFrom does with a star import none of whose names is used
EmptyNamesChange(node) == <<>>


\* ReplaceStarDestroyer.visit_ImportFrom: the new node
ReplaceNewNode(node, names) ==
    [type |-> "ImportFrom", module |-> node.module, names |-> NamesToAliases(names),
     level |-> node.level, lineno |-> node.lineno, col_offset |-> node.col_offset]

ReplaceVisitImportFrom(provided, node) ==
    IF InProvided(provided, node)
    THEN IF Len(ProvidedFor(provided, node)) = 0
         THEN EmptyNamesChange(node)
         ELSE <<Change(node, Some(ReplaceNewNode(node, ProvidedFor(provided, node))))>>
    ELSE <<>>

\* QualifyStarDestroyer.visit_ImportFrom, level == 0
QualifyAbsoluteNode(aliases, node) ==
    [type |-> "Import",
     names |-> <<Alias(Val(node.module), AliasGet(aliases, Last(Split(Val(node.module)))))>>,
     lineno |-> node.lineno, col_offset |-> node.col_offset]

\* QualifyStarDestroyer.visit_ImportFrom, level > 0 (node.module is a string)
QualifyRelativeNode(aliases, node) ==
    LET mods == NonEmptyParts(Split(Val(node.module)))
        module == IF Len(mods) > 1
                  THEN Some(Dots(node.level) \o Join(SubSeq(mods, 1, Len(mods) - 1)))
                  ELSE None
    IN  [type |-> "ImportFrom", module |-> module,
         names |-> <<Alias(Last(mods), AliasGet(aliases, Last(mods)))>>,
         level |-> node.level, lineno |-> node.lineno, col_offset |-> node.col_offset]

QualifyVisitImportFrom(provided, aliases, node) ==
    IF InProvided(provided, node)
    THEN IF Len(ProvidedFor(provided, node)) = 0
         THEN EmptyNamesChange(node)
         ELSE IF node.level = 0
         THEN <<Change(node, Some(QualifyAbsoluteNode(aliases, node)))>>
         ELSE IF IsNone(node.module)
         THEN <<Raised("AttributeError")>>     \* None.split
         ELSE <<Change(node, Some(QualifyRelativeNode(aliases, node)))>>
    ELSE <<>>

\* visit_Name: the star import that provides the name (the first one in the dict)
ProvidingImport(provided, id) ==
    provided[CHOOSE i \in 1..Len(provided) :
                /\ id \in Elems(provided[i].names)
                /\ \A j \in 1..(i - 1) : id \notin Elems(provided[j].names)].node

\* visit_Name: new_providing_name (providing_import.module is a string)
NewProvidingName(aliases, providing_import) ==
    LET last == Last(Split(Val(providing_import.module)))
    IN  IF last \in DOMAIN aliases THEN aliases[last] ELSE last

QualifyVisitName(provided, aliases, node) ==
    IF node.id \in ProvidedNames(provided)
    THEN LET providing_import == ProvidingImport(provided, node.id)
         IN  IF IsNone(providing_import.module)
             THEN <<Raised("AttributeError")>>     \* None.split
             ELSE <<Change(node, Some(
                      AttributeNode(NameNode(NewProvidingName(aliases, providing_import),
                                             "Load", node.lineno, node.col_offset),
                                    node.id, node.ctx, node.lineno, node.col_offset)))>>
    ELSE <<>>

\* results so far, followed by more unless an exception has ended the visit
Then(done, more) == IF done # <<>> /\ IsRaised(Last(done)) THEN done ELSE done \o more

\* star_destroyer.visit(node) over a list of sibling nodes: ast.NodeVisitor calls
\* visit_ImportFrom and visit_Name where defined and generic_visit elsewhere
RECURSIVE Visit(_, _, _, _)
Visit(meth, provided, aliases, nodes) ==
    IF nodes = <<>> THEN <<>>
    ELSE LET node == nodes[1]
             here == CASE node_type(node) = "ImportFrom" ->
                              IF meth = "qualify"
                              THEN QualifyVisitImportFrom(provided, aliases, node)
                              ELSE ReplaceVisitImportFrom(provided, node)
                       [] node_type(node) = "Name" /\ meth = "qualify" ->
                              QualifyVisitName(provided, aliases, node)
                       [] OTHER -> Visit(meth, provided, aliases, Children(node))
         IN  IF here # <<>> /\ IsRaised(Last(here)) THEN here
             ELSE Then(here, Visit(meth, provided, aliases, Tail(nodes)))

(***************************************************************************)
(* StarDestroyer.edit_module (star_destroyer.py)                           *)
(***************************************************************************)
\* "if node_to_text(change[0]) not in lines[line][col:]", negated
ChangeFound(lines, change) ==
    Contains(From(lines[change.old.lineno], change.old.col_offset),
             node_to_text(Some(change.old)))

\* the mismatch branch prints lines[line] and lines[line + 1], then breaks
MismatchStatus(lines, change) ==
    IF change.old.lineno + 1 > Len(lines) THEN "IndexError" ELSE "mismatch"

\* lines[line] after the change
ChangedLine(line, change) ==
    Upto(line, change.old.col_offset)
    \o Replace(From(line, change.old.col_offset),
               node_to_text(Some(change.old)), node_to_text(change.new))

\* the for-loop over star_destroyer.changes from change k on:
\* [lines: the buffer, status: "ok" | "mismatch" | "IndexError"]
RECURSIVE ApplyChanges(_, _, _)
ApplyChanges(lines, changes, k) ==
    IF k > Len(changes) THEN [lines |-> lines, status |-> "ok"]
    ELSE IF ~ChangeFound(lines, changes[k])
    THEN [lines |-> lines, status |-> MismatchStatus(lines, changes[k])]
    ELSE ApplyChanges(
             [lines EXCEPT ![changes[k].old.lineno] = ChangedLine(@, changes[k])],
             changes, k + 1)


\* the else clause taken for a for-loop that ended by break as well
LoopCompleted_Always(status) == TRUE

\* the for-loop's else clause runs when the loop ended without break
LoopCompleted(status) == status = "ok"

\* any(l1 == l2 for l1, l2 in zip(lines, original_lines))
AnyLineEqual(lines, original_lines) ==
    \E i \in 1..Min(Len(lines), Len(original_lines)) : lines[i] = original_lines[i]


\* the write made without looking at dry_run
ShouldWrite_IgnoreDryRun(dry, lines, original_lines) == AnyLineEqual(lines, original_lines)

\* "if not dry_run and any(...)": whether the buffer is written to the file
ShouldWrite(dry, lines, original_lines) == ~dry /\ AnyLineEqual(lines, original_lines)

\* edit_module: everything the call does, as a record
\*   st        the ImportMap afterwards (get_star_names may load)
\*   ret       "True", "False", "None", or the exception that left the call
\*   provided  _star_provided_names, changes  star_destroyer.changes
\*   buffer    lines when the loop ended, content  the file afterwards
edit_module(st, w, used, m, meth, dry, aliases, content) ==
    LET star_imports == CollectStarImports(Children(m.node))
        none == [st |-> st, ret |-> "None", provided |-> <<>>, changes |-> <<>>,
                 buffer |-> content, content |-> content]
    IN  IF Len(star_imports) = 0 THEN none
        ELSE IF meth \notin {"replace", "qualify"} THEN [none EXCEPT !.ret = "False"]
        ELSE LET sp      == StarProvidedNames(st, w, used, m.pkgpath, m.modpath, star_imports)
                 visited == Visit(meth, sp.provided, aliases, Children(m.node))
                 base    == [none EXCEPT !.st = sp.st, !.provided = sp.provided]
             IN  IF visited # <<>> /\ IsRaised(Last(visited))
                 THEN [base EXCEPT !.ret = Last(visited).exc,
                                   !.changes = SubSeq(visited, 1, Len(visited) - 1)]
                 ELSE IF Len(visited) = 0 THEN base
                 ELSE LET applied == ApplyChanges(content, visited, 1)
                          b2 == [base EXCEPT !.changes = visited, !.buffer = applied.lines]
                      IN  IF LoopCompleted(applied.status)
                          THEN [b2 EXCEPT !.ret = "True",
                                          !.content = IF ShouldWrite(dry, applied.lines, content)
                                                      THEN applied.lines ELSE content]
                          ELSE IF applied.status = "IndexError"
                          THEN [b2 EXCEPT !.ret = "IndexError"]
                          ELSE [b2 EXCEPT !.ret = "False"]

(***************************************************************************)
(* The catalogs: what get_modules yields for a source tree (pkgpath,       *)
(* modpath, path and the tree ast.parse builds from the file), with the    *)
(* file's lines, the module paths find_module finds under the root, and    *)
(* the export lists of the modules that star imports load.                 *)
(***************************************************************************)
\* a dict from a list of <<key, value>> pairs
DictOf(pairs) ==
    [k \in {pairs[i][1] : i \in 1..Len(pairs)} |->
        pairs[CHOOSE i \in 1..Len(pairs) : pairs[i][1] = k][2]]

TreeBasic ==
    [modules |-> <<
      \* p/__init__.py: ''
      [pkgpath |-> <<"p">>, modpath |-> <<"p">>, path |-> "p/__init__.py",
       source |-> <<>>,
       node |-> Node("Module", <<>>)],
      \* p/a.py: 'f = 1\ng = 2\n'
      [pkgpath |-> <<"p">>, modpath |-> <<"p", ".", "a">>, path |-> "p/a.py",
       source |-> <<<<"f", " ", "=", " ", "1", "\n">>, <<"g", " ", "=", " ", "2", "\n">>>>,
       node |-> Node("Module", <<Node("Assign", <<NameNode(<<"f">>, "Store", 1, 0)>>), Node("Assign", <<NameNode(<<"g">>, "Store", 2, 0)>>)>>)],
      \* p/b.py: 'from p.a import *\nprint(f)\n'
      [pkgpath |-> <<"p">>, modpath |-> <<"p", ".", "b">>, path |-> "p/b.py",
       source |-> <<<<"f", "r", "o", "m", " ", "p", ".", "a", " ", "i", "m", "p", "o", "r", "t", " ", "*", "\n">>, <<"p", "r", "i", "n", "t", "(", "f", ")", "\n">>>>,
       node |-> Node("Module", <<ImportFromNode(Some(<<"p", ".", "a">>), <<Alias(<<"*">>, None)>>, 0, 1, 0), Node("Expr", <<Node("Call", <<NameNode(<<"p", "r", "i", "n", "t">>, "Load", 2, 0), NameNode(<<"f">>, "Load", 2, 6)>>)>>)>>)] >>,
     exists |-> {<<"p">>, <<"p", ".", "a">>, <<"p", ".", "b">>},
     exports |-> DictOf(<<<<<<"p", ".", "a">>, <<<<"f">>, <<"g">>>>>>>>)]

TreeUnused ==
    [modules |-> <<
      \* p/__init__.py: ''
      [pkgpath |-> <<"p">>, modpath |-> <<"p">>, path |-> "p/__init__.py",
       source |-> <<>>,
       node |-> Node("Module", <<>>)],
      \* p/a.py: 'f = 1\ng = 2\n'
      [pkgpath |-> <<"p">>, modpath |-> <<"p", ".", "a">>, path |-> "p/a.py",
       source |-> <<<<"f", " ", "=", " ", "1", "\n">>, <<"g", " ", "=", " ", "2", "\n">>>>,
       node |-> Node("Module", <<Node("Assign", <<NameNode(<<"f">>, "Store", 1, 0)>>), Node("Assign", <<NameNode(<<"g">>, "Store", 2, 0)>>)>>)],
      \* p/b.py: 'from p.a import *\nx = 1\n'
      [pkgpath |-> <<"p">>, modpath |-> <<"p", ".", "b">>, path |-> "p/b.py",
       source |-> <<<<"f", "r", "o", "m", " ", "p", ".", "a", " ", "i", "m", "p", "o", "r", "t", " ", "*", "\n">>, <<"x", " ", "=", " ", "1", "\n">>>>,
       node |-> Node("Module", <<ImportFromNode(Some(<<"p", ".", "a">>), <<Alias(<<"*">>, None)>>, 0, 1, 0), Node("Assign", <<NameNode(<<"x">>, "Store", 2, 0)>>)>>)] >>,
     exists |-> {<<"p">>, <<"p", ".", "a">>, <<"p", ".", "b">>},
     exports |-> DictOf(<<<<<<"p", ".", "a">>, <<<<"f">>, <<"g">>>>>>>>)]

TreeDrift ==
    [modules |-> <<
      \* p/__init__.py: ''
      [pkgpath |-> <<"p">>, modpath |-> <<"p">>, path |-> "p/__init__.py",
       source |-> <<>>,
       node |-> Node("Module", <<>>)],
      \* p/a.py: 'f = 1\ng = 2\n'
      [pkgpath |-> <<"p">>, modpath |-> <<"p", ".", "a">>, path |-> "p/a.py",
       source |-> <<<<"f", " ", "=", " ", "1", "\n">>, <<"g", " ", "=", " ", "2", "\n">>>>,
       node |-> Node("Module", <<Node("Assign", <<NameNode(<<"f">>, "Store", 1, 0)>>), Node("Assign", <<NameNode(<<"g">>, "Store", 2, 0)>>)>>)],
      \* p/c.py: 'h = 3\n'
      [pkgpath |-> <<"p">>, modpath |-> <<"p", ".", "c">>, path |-> "p/c.py",
       source |-> <<<<"h", " ", "=", " ", "3", "\n">>>>,
       node |-> Node("Module", <<Node("Assign", <<NameNode(<<"h">>, "Store", 1, 0)>>)>>)],
      \* p/b.py: 'from p.a import *\nfrom  p.c import *\nf\nh\n'
      [pkgpath |-> <<"p">>, modpath |-> <<"p", ".", "b">>, path |-> "p/b.py",
       source |-> <<<<"f", "r", "o", "m", " ", "p", ".", "a", " ", "i", "m", "p", "o", "r", "t", " ", "*", "\n">>, <<"f", "r", "o", "m", " ", " ", "p", ".", "c", " ", "i", "m", "p", "o", "r", "t", " ", "*", "\n">>, <<"f", "\n">>, <<"h", "\n">>>>,
       node |-> Node("Module", <<ImportFromNode(Some(<<"p", ".", "a">>), <<Alias(<<"*">>, None)>>, 0, 1, 0), ImportFromNode(Some(<<"p", ".", "c">>), <<Alias(<<"*">>, None)>>, 0, 2, 0), Node("Expr", <<NameNode(<<"f">>, "Load", 3, 0)>>), Node("Expr", <<NameNode(<<"h">>, "Load", 4, 0)>>)>>)],
      \* p/d.py: 'from p.a import *\ng\n'
      [pkgpath |-> <<"p">>, modpath |-> <<"p", ".", "d">>, path |-> "p/d.py",
       source |-> <<<<"f", "r", "o", "m", " ", "p", ".", "a", " ", "i", "m", "p", "o", "r", "t", " ", "*", "\n">>, <<"g", "\n">>>>,
       node |-> Node("Module", <<ImportFromNode(Some(<<"p", ".", "a">>), <<Alias(<<"*">>, None)>>, 0, 1, 0), Node("Expr", <<NameNode(<<"g">>, "Load", 2, 0)>>)>>)] >>,
     exists |-> {<<"p">>, <<"p", ".", "a">>, <<"p", ".", "b">>, <<"p", ".", "c">>, <<"p", ".", "d">>},
     exports |-> DictOf(<<<<<<"p", ".", "a">>, <<<<"f">>, <<"g">>>>>>, <<<<"p", ".", "c">>, <<<<"h">>>>>>>>)]

TreeDriftLast ==
    [modules |-> <<
      \* p/__init__.py: ''
      [pkgpath |-> <<"p">>, modpath |-> <<"p">>, path |-> "p/__init__.py",
       source |-> <<>>,
       node |-> Node("Module", <<>>)],
      \* p/a.py: 'f = 1\ng = 2\n'
      [pkgpath |-> <<"p">>, modpath |-> <<"p", ".", "a">>, path |-> "p/a.py",
       source |-> <<<<"f", " ", "=", " ", "1", "\n">>, <<"g", " ", "=", " ", "2", "\n">>>>,
       node |-> Node("Module", <<Node("Assign", <<NameNode(<<"f">>, "Store", 1, 0)>>), Node("Assign", <<NameNode(<<"g">>, "Store", 2, 0)>>)>>)],
      \* p/b.py: 'f\nfrom  p.a import *\n'
      [pkgpath |-> <<"p">>, modpath |-> <<"p", ".", "b">>, path |-> "p/b.py",
       source |-> <<<<"f", "\n">>, <<"f", "r", "o", "m", " ", " ", "p", ".", "a", " ", "i", "m", "p", "o", "r", "t", " ", "*", "\n">>>>,
       node |-> Node("Module", <<Node("Expr", <<NameNode(<<"f">>, "Load", 1, 0)>>), ImportFromNode(Some(<<"p", ".", "a">>), <<Alias(<<"*">>, None)>>, 0, 2, 0)>>)],
      \* p/d.py: 'from p.a import *\ng\n'
      [pkgpath |-> <<"p">>, modpath |-> <<"p", ".", "d">>, path |-> "p/d.py",
       source |-> <<<<"f", "r", "o", "m", " ", "p", ".", "a", " ", "i", "m", "p", "o", "r", "t", " ", "*", "\n">>, <<"g", "\n">>>>,
       node |-> Node("Module", <<ImportFromNode(Some(<<"p", ".", "a">>), <<Alias(<<"*">>, None)>>, 0, 1, 0), Node("Expr", <<NameNode(<<"g">>, "Load", 2, 0)>>)>>)] >>,
     exists |-> {<<"p">>, <<"p", ".", "a">>, <<"p", ".", "b">>, <<"p", ".", "d">>},
     exports |-> DictOf(<<<<<<"p", ".", "a">>, <<<<"f">>, <<"g">>>>>>>>)]

TreeRelative ==
    [modules |-> <<
      \* p/__init__.py: 'k = 1\n'
      [pkgpath |-> <<"p">>, modpath |-> <<"p">>, path |-> "p/__init__.py",
       source |-> <<<<"k", " ", "=", " ", "1", "\n">>>>,
       node |-> Node("Module", <<Node("Assign", <<NameNode(<<"k">>, "Store", 1, 0)>>)>>)],
      \* p/a.py: 'f = 1\ng = 2\n'
      [pkgpath |-> <<"p">>, modpath |-> <<"p", ".", "a">>, path |-> "p/a.py",
       source |-> <<<<"f", " ", "=", " ", "1", "\n">>, <<"g", " ", "=", " ", "2", "\n">>>>,
       node |-> Node("Module", <<Node("Assign", <<NameNode(<<"f">>, "Store", 1, 0)>>), Node("Assign", <<NameNode(<<"g">>, "Store", 2, 0)>>)>>)],
      \* p/s/__init__.py: ''
      [pkgpath |-> <<"p", ".", "s">>, modpath |-> <<"p", ".", "s">>, path |-> "p/s/__init__.py",
       source |-> <<>>,
       node |-> Node("Module", <<>>)],
      \* p/s/a.py: 'e = 5\n'
      [pkgpath |-> <<"p", ".", "s">>, modpath |-> <<"p", ".", "s", ".", "a">>, path |-> "p/s/a.py",
       source |-> <<<<"e", " ", "=", " ", "5", "\n">>>>,
       node |-> Node("Module", <<Node("Assign", <<NameNode(<<"e">>, "Store", 1, 0)>>)>>)],
      \* p/b.py: 'from .a import *\nf\n'
      [pkgpath |-> <<"p">>, modpath |-> <<"p", ".", "b">>, path |-> "p/b.py",
       source |-> <<<<"f", "r", "o", "m", " ", ".", "a", " ", "i", "m", "p", "o", "r", "t", " ", "*", "\n">>, <<"f", "\n">>>>,
       node |-> Node("Module", <<ImportFromNode(Some(<<"a">>), <<Alias(<<"*">>, None)>>, 1, 1, 0), Node("Expr", <<NameNode(<<"f">>, "Load", 2, 0)>>)>>)],
      \* p/d.py: 'from .s.a import *\ne\n'
      [pkgpath |-> <<"p">>, modpath |-> <<"p", ".", "d">>, path |-> "p/d.py",
       source |-> <<<<"f", "r", "o", "m", " ", ".", "s", ".", "a", " ", "i", "m", "p", "o", "r", "t", " ", "*", "\n">>, <<"e", "\n">>>>,
       node |-> Node("Module", <<ImportFromNode(Some(<<"s", ".", "a">>), <<Alias(<<"*">>, None)>>, 1, 1, 0), Node("Expr", <<NameNode(<<"e">>, "Load", 2, 0)>>)>>)],
      \* p/c.py: 'from . import *\nk\n'
      [pkgpath |-> <<"p">>, modpath |-> <<"p", ".", "c">>, path |-> "p/c.py",
       source |-> <<<<"f", "r", "o", "m", " ", ".", " ", "i", "m", "p", "o", "r", "t", " ", "*", "\n">>, <<"k", "\n">>>>,
       node |-> Node("Module", <<ImportFromNode(None, <<Alias(<<"*">>, None)>>, 1, 1, 0), Node("Expr", <<NameNode(<<"k">>, "Load", 2, 0)>>)>>)] >>,
     exists |-> {<<"p">>, <<"p", ".", "a">>, <<"p", ".", "b">>, <<"p", ".", "c">>, <<"p", ".", "d">>, <<"p", ".", "s">>, <<"p", ".", "s", ".", "a">>},
     exports |-> DictOf(<<<<<<"p", ".", "a">>, <<<<"f">>, <<"g">>>>>>, <<<<"p", ".", "s", ".", "a">>, <<<<"e">>>>>>, <<<<"p">>, <<<<"a">>, <<"k">>, <<"s">>>>>>>>)]

TreeWhole ==
    [modules |-> <<
      \* p/__init__.py: ''
      [pkgpath |-> <<"p">>, modpath |-> <<"p">>, path |-> "p/__init__.py",
       source |-> <<>>,
       node |-> Node("Module", <<>>)],
      \* p/a.py: 'f = 1\ng = 2\n'
      [pkgpath |-> <<"p">>, modpath |-> <<"p", ".", "a">>, path |-> "p/a.py",
       source |-> <<<<"f", " ", "=", " ", "1", "\n">>, <<"g", " ", "=", " ", "2", "\n">>>>,
       node |-> Node("Module", <<Node("Assign", <<NameNode(<<"f">>, "Store", 1, 0)>>), Node("Assign", <<NameNode(<<"g">>, "Store", 2, 0)>>)>>)],
      \* p/b.py: 'from p.a import *\n'
      [pkgpath |-> <<"p">>, modpath |-> <<"p", ".", "b">>, path |-> "p/b.py",
       source |-> <<<<"f", "r", "o", "m", " ", "p", ".", "a", " ", "i", "m", "p", "o", "r", "t", " ", "*", "\n">>>>,
       node |-> Node("Module", <<ImportFromNode(Some(<<"p", ".", "a">>), <<Alias(<<"*">>, None)>>, 0, 1, 0)>>)],
      \* p/d.py: 'import p.b\np.b.f\n'
      [pkgpath |-> <<"p">>, modpath |-> <<"p", ".", "d">>, path |-> "p/d.py",
       source |-> <<<<"i", "m", "p", "o", "r", "t", " ", "p", ".", "b", "\n">>, <<"p", ".", "b", ".", "f", "\n">>>>,
       node |-> Node("Module", <<ImportNode(<<Alias(<<"p", ".", "b">>, None)>>, 1, 0), Node("Expr", <<AttributeNode(AttributeNode(NameNode(<<"p">>, "Load", 2, 0), <<"b">>, "Load", 2, 0), <<"f">>, "Load", 2, 0)>>)>>)] >>,
     exists |-> {<<"p">>, <<"p", ".", "a">>, <<"p", ".", "b">>, <<"p", ".", "d">>},
     exports |-> DictOf(<<<<<<"p", ".", "a">>, <<<<"f">>, <<"g">>>>>>>>)]

TreeDup ==
    [modules |-> <<
      \* p/__init__.py: ''
      [pkgpath |-> <<"p">>, modpath |-> <<"p">>, path |-> "p/__init__.py",
       source |-> <<>>,
       node |-> Node("Module", <<>>)],
      \* p/a.py: "__all__ = ['g', 'f', 'f']\nf = 1\ng = 2\n"
      [pkgpath |-> <<"p">>, modpath |-> <<"p", ".", "a">>, path |-> "p/a.py",
       source |-> <<<<"_", "_", "a", "l", "l", "_", "_", " ", "=", " ", "[", "'", "g", "'", ",", " ", "'", "f", "'", ",", " ", "'", "f", "'", "]", "\n">>, <<"f", " ", "=", " ", "1", "\n">>, <<"g", " ", "=", " ", "2", "\n">>>>,
       node |-> Node("Module", <<Node("Assign", <<NameNode(<<"_", "_", "a", "l", "l", "_", "_">>, "Store", 1, 0)>>), Node("Assign", <<NameNode(<<"f">>, "Store", 2, 0)>>), Node("Assign", <<NameNode(<<"g">>, "Store", 3, 0)>>)>>)],
      \* p/b.py: 'from p.a import *\nf\ng\n'
      [pkgpath |-> <<"p">>, modpath |-> <<"p", ".", "b">>, path |-> "p/b.py",
       source |-> <<<<"f", "r", "o", "m", " ", "p", ".", "a", " ", "i", "m", "p", "o", "r", "t", " ", "*", "\n">>, <<"f", "\n">>, <<"g", "\n">>>>,
       node |-> Node("Module", <<ImportFromNode(Some(<<"p", ".", "a">>), <<Alias(<<"*">>, None)>>, 0, 1, 0), Node("Expr", <<NameNode(<<"f">>, "Load", 2, 0)>>), Node("Expr", <<NameNode(<<"g">>, "Load", 3, 0)>>)>>)] >>,
     exists |-> {<<"p">>, <<"p", ".", "a">>, <<"p", ".", "b">>},
     exports |-> DictOf(<<<<<<"p", ".", "a">>, <<<<"g">>, <<"f">>, <<"f">>>>>>>>)]

TreeMulti ==
    [modules |-> <<
      \* p/__init__.py: ''
      [pkgpath |-> <<"p">>, modpath |-> <<"p">>, path |-> "p/__init__.py",
       source |-> <<>>,
       node |-> Node("Module", <<>>)],
      \* p/a.py: 'f = 1\ng = 2\n'
      [pkgpath |-> <<"p">>, modpath |-> <<"p", ".", "a">>, path |-> "p/a.py",
       source |-> <<<<"f", " ", "=", " ", "1", "\n">>, <<"g", " ", "=", " ", "2", "\n">>>>,
       node |-> Node("Module", <<Node("Assign", <<NameNode(<<"f">>, "Store", 1, 0)>>), Node("Assign", <<NameNode(<<"g">>, "Store", 2, 0)>>)>>)],
      \* p/b.py: 'from p.a import *\nfx = f + f\n'
      [pkgpath |-> <<"p">>, modpath |-> <<"p", ".", "b">>, path |-> "p/b.py",
       source |-> <<<<"f", "r", "o", "m", " ", "p", ".", "a", " ", "i", "m", "p", "o", "r", "t", " ", "*", "\n">>, <<"f", "x", " ", "=", " ", "f", " ", "+", " ", "f", "\n">>>>,
       node |-> Node("Module", <<ImportFromNode(Some(<<"p", ".", "a">>), <<Alias(<<"*">>, None)>>, 0, 1, 0), Node("Assign", <<NameNode(<<"f", "x">>, "Store", 2, 0), Node("BinOp", <<NameNode(<<"f">>, "Load", 2, 5), NameNode(<<"f">>, "Load", 2, 9)>>)>>)>>)] >>,
     exists |-> {<<"p">>, <<"p", ".", "a">>, <<"p", ".", "b">>},
     exports |-> DictOf(<<<<<<"p", ".", "a">>, <<<<"f">>, <<"g">>>>>>>>)]

TreeReexport ==
    [modules |-> <<
      \* p/__init__.py: ''
      [pkgpath |-> <<"p">>, modpath |-> <<"p">>, path |-> "p/__init__.py",
       source |-> <<>>,
       node |-> Node("Module", <<>>)],
      \* p/a.py: 'f = 1\ng = 2\n'
      [pkgpath |-> <<"p">>, modpath |-> <<"p", ".", "a">>, path |-> "p/a.py",
       source |-> <<<<"f", " ", "=", " ", "1", "\n">>, <<"g", " ", "=", " ", "2", "\n">>>>,
       node |-> Node("Module", <<Node("Assign", <<NameNode(<<"f">>, "Store", 1, 0)>>), Node("Assign", <<NameNode(<<"g">>, "Store", 2, 0)>>)>>)],
      \* p/b.py: 'from p.a import *\n'
      [pkgpath |-> <<"p">>, modpath |-> <<"p", ".", "b">>, path |-> "p/b.py",
       source |-> <<<<"f", "r", "o", "m", " ", "p", ".", "a", " ", "i", "m", "p", "o", "r", "t", " ", "*", "\n">>>>,
       node |-> Node("Module", <<ImportFromNode(Some(<<"p", ".", "a">>), <<Alias(<<"*">>, None)>>, 0, 1, 0)>>)],
      \* p/c.py: 'from p.b import f\n'
      [pkgpath |-> <<"p">>, modpath |-> <<"p", ".", "c">>, path |-> "p/c.py",
       source |-> <<<<"f", "r", "o", "m", " ", "p", ".", "b", " ", "i", "m", "p", "o", "r", "t", " ", "f", "\n">>>>,
       node |-> Node("Module", <<ImportFromNode(Some(<<"p", ".", "b">>), <<Alias(<<"f">>, None)>>, 0, 1, 0)>>)],
      \* p/d.py: 'from p.b import g\ng\n'
      [pkgpath |-> <<"p">>, modpath |-> <<"p", ".", "d">>, path |-> "p/d.py",
       source |-> <<<<"f", "r", "o", "m", " ", "p", ".", "b", " ", "i", "m", "p", "o", "r", "t", " ", "g", "\n">>, <<"g", "\n">>>>,
       node |-> Node("Module", <<ImportFromNode(Some(<<"p", ".", "b">>), <<Alias(<<"g">>, None)>>, 0, 1, 0), Node("Expr", <<NameNode(<<"g">>, "Load", 2, 0)>>)>>)] >>,
     exists |-> {<<"p">>, <<"p", ".", "a">>, <<"p", ".", "b">>, <<"p", ".", "c">>, <<"p", ".", "d">>},
     exports |-> DictOf(<<<<<<"p", ".", "a">>, <<<<"f">>, <<"g">>>>>>>>)]

TreeUnloadable ==
    [modules |-> <<
      \* p/__init__.py: ''
      [pkgpath |-> <<"p">>, modpath |-> <<"p">>, path |-> "p/__init__.py",
       source |-> <<>>,
       node |-> Node("Module", <<>>)],
      \* p/a.py: 'f = 1\ng = 2\n'
      [pkgpath |-> <<"p">>, modpath |-> <<"p", ".", "a">>, path |-> "p/a.py",
       source |-> <<<<"f", " ", "=", " ", "1", "\n">>, <<"g", " ", "=", " ", "2", "\n">>>>,
       node |-> Node("Module", <<Node("Assign", <<NameNode(<<"f">>, "Store", 1, 0)>>), Node("Assign", <<NameNode(<<"g">>, "Store", 2, 0)>>)>>)],
      \* p/b.py: 'from zz import *\nf\n'
      [pkgpath |-> <<"p">>, modpath |-> <<"p", ".", "b">>, path |-> "p/b.py",
       source |-> <<<<"f", "r", "o", "m", " ", "z", "z", " ", "i", "m", "p", "o", "r", "t", " ", "*", "\n">>, <<"f", "\n">>>>,
       node |-> Node("Module", <<ImportFromNode(Some(<<"z", "z">>), <<Alias(<<"*">>, None)>>, 0, 1, 0), Node("Expr", <<NameNode(<<"f">>, "Load", 2, 0)>>)>>)],
      \* p/c.py: 'from zz import *\nfrom p.a import *\ng\n'
      [pkgpath |-> <<"p">>, modpath |-> <<"p", ".", "c">>, path |-> "p/c.py",
       source |-> <<<<"f", "r", "o", "m", " ", "z", "z", " ", "i", "m", "p", "o", "r", "t", " ", "*", "\n">>, <<"f", "r", "o", "m", " ", "p", ".", "a", " ", "i", "m", "p", "o", "r", "t", " ", "*", "\n">>, <<"g", "\n">>>>,
       node |-> Node("Module", <<ImportFromNode(Some(<<"z", "z">>), <<Alias(<<"*">>, None)>>, 0, 1, 0), ImportFromNode(Some(<<"p", ".", "a">>), <<Alias(<<"*">>, None)>>, 0, 2, 0), Node("Expr", <<NameNode(<<"g">>, "Load", 3, 0)>>)>>)] >>,
     exists |-> {<<"p">>, <<"p", ".", "a">>, <<"p", ".", "b">>, <<"p", ".", "c">>},
     exports |-> DictOf(<<<<<<"p", ".", "a">>, <<<<"f">>, <<"g">>>>>>>>)]

TreeAlias ==
    [modules |-> <<
      \* p/__init__.py: 'import p.a as q\n'
      [pkgpath |-> <<"p">>, modpath |-> <<"p">>, path |-> "p/__init__.py",
       source |-> <<<<"i", "m", "p", "o", "r", "t", " ", "p", ".", "a", " ", "a", "s", " ", "q", "\n">>>>,
       node |-> Node("Module", <<ImportNode(<<Alias(<<"p", ".", "a">>, Some(<<"q">>))>>, 1, 0)>>)],
      \* p/a.py: 'f = 1\ng = 2\n'
      [pkgpath |-> <<"p">>, modpath |-> <<"p", ".", "a">>, path |-> "p/a.py",
       source |-> <<<<"f", " ", "=", " ", "1", "\n">>, <<"g", " ", "=", " ", "2", "\n">>>>,
       node |-> Node("Module", <<Node("Assign", <<NameNode(<<"f">>, "Store", 1, 0)>>), Node("Assign", <<NameNode(<<"g">>, "Store", 2, 0)>>)>>)],
      \* p/b.py: 'import p.a as q\nimport p.a\nq.f\np.a.g\n'
      [pkgpath |-> <<"p">>, modpath |-> <<"p", ".", "b">>, path |-> "p/b.py",
       source |-> <<<<"i", "m", "p", "o", "r", "t", " ", "p", ".", "a", " ", "a", "s", " ", "q", "\n">>, <<"i", "m", "p", "o", "r", "t", " ", "p", ".", "a", "\n">>, <<"q", ".", "f", "\n">>, <<"p", ".", "a", ".", "g", "\n">>>>,
       node |-> Node("Module", <<ImportNode(<<Alias(<<"p", ".", "a">>, Some(<<"q">>))>>, 1, 0), ImportNode(<<Alias(<<"p", ".", "a">>, None)>>, 2, 0), Node("Expr", <<AttributeNode(NameNode(<<"q">>, "Load", 3, 0), <<"f">>, "Load", 3, 0)>>), Node("Expr", <<AttributeNode(AttributeNode(NameNode(<<"p">>, "Load", 4, 0), <<"a">>, "Load", 4, 0), <<"g">>, "Load", 4, 0)>>)>>)] >>,
     exists |-> {<<"p">>, <<"p", ".", "a">>, <<"p", ".", "b">>},
     exports |-> DictOf(<<>>)]

TreeAliasDeep ==
    [modules |-> <<
      \* p/__init__.py: 'import p.s.a as q\n'
      [pkgpath |-> <<"p">>, modpath |-> <<"p">>, path |-> "p/__init__.py",
       source |-> <<<<"i", "m", "p", "o", "r", "t", " ", "p", ".", "s", ".", "a", " ", "a", "s", " ", "q", "\n">>>>,
       node |-> Node("Module", <<ImportNode(<<Alias(<<"p", ".", "s", ".", "a">>, Some(<<"q">>))>>, 1, 0)>>)],
      \* p/s/__init__.py: 'import p.s.a as r\n'
      [pkgpath |-> <<"p", ".", "s">>, modpath |-> <<"p", ".", "s">>, path |-> "p/s/__init__.py",
       source |-> <<<<"i", "m", "p", "o", "r", "t", " ", "p", ".", "s", ".", "a", " ", "a", "s", " ", "r", "\n">>>>,
       node |-> Node("Module", <<ImportNode(<<Alias(<<"p", ".", "s", ".", "a">>, Some(<<"r">>))>>, 1, 0)>>)],
      \* p/s/a.py: 'e = 5\n'
      [pkgpath |-> <<"p", ".", "s">>, modpath |-> <<"p", ".", "s", ".", "a">>, path |-> "p/s/a.py",
       source |-> <<<<"e", " ", "=", " ", "5", "\n">>>>,
       node |-> Node("Module", <<Node("Assign", <<NameNode(<<"e">>, "Store", 1, 0)>>)>>)],
      \* p/b.py: 'import p.s.a as q\nimport zz.y as w\nfrom p.s.a import *\nq.e\ne\n'
      [pkgpath |-> <<"p">>, modpath |-> <<"p", ".", "b">>, path |-> "p/b.py",
       source |-> <<<<"i", "m", "p", "o", "r", "t", " ", "p", ".", "s", ".", "a", " ", "a", "s", " ", "q", "\n">>, <<"i", "m", "p", "o", "r", "t", " ", "z", "z", ".", "y", " ", "a", "s", " ", "w", "\n">>, <<"f", "r", "o", "m", " ", "p", ".", "s", ".", "a", " ", "i", "m", "p", "o", "r", "t", " ", "*", "\n">>, <<"q", ".", "e", "\n">>, <<"e", "\n">>>>,
       node |-> Node("Module", <<ImportNode(<<Alias(<<"p", ".", "s", ".", "a">>, Some(<<"q">>))>>, 1, 0), ImportNode(<<Alias(<<"z", "z", ".", "y">>, Some(<<"w">>))>>, 2, 0), ImportFromNode(Some(<<"p", ".", "s", ".", "a">>), <<Alias(<<"*">>, None)>>, 0, 3, 0), Node("Expr", <<AttributeNode(NameNode(<<"q">>, "Load", 4, 0), <<"e">>, "Load", 4, 0)>>), Node("Expr", <<NameNode(<<"e">>, "Load", 5, 0)>>)>>)] >>,
     exists |-> {<<"p">>, <<"p", ".", "b">>, <<"p", ".", "s">>, <<"p", ".", "s", ".", "a">>},
     exports |-> DictOf(<<<<<<"p", ".", "s", ".", "a">>, <<<<"e">>>>>>>>)]

TreeNested ==
    [modules |-> <<
      \* p/__init__.py: ''
      [pkgpath |-> <<"p">>, modpath |-> <<"p">>, path |-> "p/__init__.py",
       source |-> <<>>,
       node |-> Node("Module", <<>>)],
      \* p/a.py: 'f = 1\ng = 2\n'
      [pkgpath |-> <<"p">>, modpath |-> <<"p", ".", "a">>, path |-> "p/a.py",
       source |-> <<<<"f", " ", "=", " ", "1", "\n">>, <<"g", " ", "=", " ", "2", "\n">>>>,
       node |-> Node("Module", <<Node("Assign", <<NameNode(<<"f">>, "Store", 1, 0)>>), Node("Assign", <<NameNode(<<"g">>, "Store", 2, 0)>>)>>)],
      \* p/b.py: 'from p.a import *\ny = f(g).z\n'
      [pkgpath |-> <<"p">>, modpath |-> <<"p", ".", "b">>, path |-> "p/b.py",
       source |-> <<<<"f", "r", "o", "m", " ", "p", ".", "a", " ", "i", "m", "p", "o", "r", "t", " ", "*", "\n">>, <<"y", " ", "=", " ", "f", "(", "g", ")", ".", "z", "\n">>>>,
       node |-> Node("Module", <<ImportFromNode(Some(<<"p", ".", "a">>), <<Alias(<<"*">>, None)>>, 0, 1, 0), Node("Assign", <<NameNode(<<"y">>, "Store", 2, 0), AttributeNode(Node("Call", <<NameNode(<<"f">>, "Load", 2, 4), NameNode(<<"g">>, "Load", 2, 6)>>), <<"z">>, "Load", 2, 4)>>)>>)] >>,
     exists |-> {<<"p">>, <<"p", ".", "a">>, <<"p", ".", "b">>},
     exports |-> DictOf(<<<<<<"p", ".", "a">>, <<<<"f">>, <<"g">>>>>>>>)]


Trees == {TreeBasic, TreeUnused, TreeDrift, TreeDriftLast, TreeRelative, TreeWhole, TreeDup, TreeMulti, TreeReexport, TreeUnloadable, TreeAlias, TreeAliasDeep, TreeNested}

Methods == {"replace", "qualify", "other"}
AliasTables == { EmptyDict, DictOf(<< <<<<"a">>, <<"q">>>> >>) }

(***************************************************************************)
(* The pipeline: scan(root_path) followed by edit(...)                     *)
(***************************************************************************)
Init ==
    /\ ChaseIdle /\ ResolveIdle
    /\ \E t \in Trees :
         /\ modules = t.modules
         /\ world = [exists |-> t.exists, exports |-> t.exports]
         /\ files = [path \in {t.modules[i].path : i \in 1..Len(t.modules)} |->
                        t.modules[CHOOSE i \in 1..Len(t.modules) :
                                     t.modules[i].path = path].source]
    /\ method \in Methods
    /\ module_aliases \in AliasTables
    /\ dry_run \in BOOLEAN
    /\ pc = "scan_imports"
    /\ idx = 1
    /\ import_map = EmptyDict
    /\ star_names = EmptyDict
    /\ loads = <<>>
    /\ usage_map = EmptyDict
    /\ all_used = {}
    /\ edits = <<>>

Inputs == <<modules, world, method, module_aliases, dry_run>>

\* the ImportMap object
TheImportMap == [map |-> import_map, star_names |-> star_names, loads |-> loads]

\* scan(): one iteration of "for ... in modules: import_map.scan_module(...)"
ImportMapScanModule ==
    /\ pc = "scan_imports" /\ idx <= Len(modules)
    /\ LET m  == modules[idx]
           st == ImportMapScan(TheImportMap, world, m.pkgpath, m.modpath, m.node)
       IN  /\ import_map' = st.map
           /\ star_names' = st.star_names
           /\ loads' = st.loads
    /\ IF idx = Len(modules) THEN pc' = "scan_usage" /\ idx' = 1
                             ELSE pc' = pc /\ idx' = idx + 1
    /\ UNCHANGED <<Inputs, usage_map, all_used, files, edits, cvars, rvars>>

\* scan(): one iteration of "for ... in modules: usage_map.scan_module(...)"
UsageMapScanModule ==
    /\ pc = "scan_usage" /\ idx <= Len(modules)
    /\ usage_map' = UsageMapScan(usage_map, import_map, modules[idx].modpath,
                                 modules[idx].node)
    /\ import_map' = UsageMapScanImportMap(import_map, modules[idx].modpath,
                                           modules[idx].node)
    /\ IF idx = Len(modules) THEN pc' = "scanned" /\ idx' = 1
                             ELSE pc' = pc /\ idx' = idx + 1
    /\ UNCHANGED <<Inputs, star_names, loads, all_used, files, edits, cvars, rvars>>

\* edit(): StarDestroyer(import_map, usage_map) computes all_used
StarDestroyerInit ==
    /\ pc = "scanned"
    /\ all_used' = UNION { get_used_origins(usage_map, m) : m \in DOMAIN usage_map }
    /\ pc' = "edit" /\ idx' = 1
    /\ UNCHANGED <<Inputs, import_map, star_names, loads, usage_map, files, edits,
                   cvars, rvars>>

\* edit(): one iteration of "for ... in modules: star_destroyer.edit_module(...)";
\* an exception leaves edit() and ends the run
EditModule ==
    /\ pc = "edit" /\ idx <= Len(modules)
    /\ LET m == modules[idx]
           r == edit_module(TheImportMap, world, all_used, m, method, dry_run,
                            module_aliases, files[m.path])
       IN  /\ import_map' = r.st.map
           /\ star_names' = r.st.star_names
           /\ loads' = r.st.loads
           /\ files' = [files EXCEPT ![m.path] = r.content]
           /\ edits' = Append(edits, [path |-> m.path, modpath |-> m.modpath,
                                      ret |-> r.ret, provided |-> r.provided,
                                      changes |-> r.changes, buffer |-> r.buffer,
                                      before |-> files[m.path]])
           /\ IF r.ret \in {"IndexError", "AttributeError"}
              THEN pc' = "raised" /\ idx' = idx
              ELSE IF idx = Len(modules) THEN pc' = "done" /\ idx' = idx
              ELSE pc' = pc /\ idx' = idx + 1
    /\ UNCHANGED <<Inputs, usage_map, all_used, cvars, rvars>>

Next ==
    \/ ImportMapScanModule
    \/ UsageMapScanModule
    \/ StarDestroyerInit
    \/ EditModule

Spec == Init /\ [][Next]_vars

(***************************************************************************)
(* Properties                                                              *)
(***************************************************************************)
Dot2(o) == Cardinality({k \in 1..Len(o) : o[k] = "."}) >= 2

\* C1: UsageMap's get_origins(modpath, name) terminates and returns a finite set
\* of origins of the map, for every finite Origin Map, cyclic ones included.
C1_UsageChaseTerminates ==
    /\ <>(ch_pc = "returned")
    /\ [](ch_pc = "returned" =>
            IsFiniteSet(ch_origins) /\ ch_origins \subseteq AllOrigins(import_map))

\* a returned chase over the two-module cycle a.x -> b.x -> a.x
C1_Witness ==
    /\ ch_pc = "returned"
    /\ <<"b", ".", "x">> \in ImportMapGetOrigins(import_map, <<"a">>, <<"x">>)
    /\ <<"a", ".", "x">> \in ImportMapGetOrigins(import_map, <<"b">>, <<"x">>)
    /\ ch_query = << <<"a">>, <<"x">> >>
    /\ {<<"a", ".", "x">>, <<"b", ".", "x">>} \subseteq ch_origins

\* C2: NameResolver's get_origins(modpath, name) never enters the same
\* (modpath, name) twice on one call chain and never exhausts the stack: it
\* terminates for every finite Origin Map, cyclic ones included.
C2_ResolverChaseTerminates ==
    /\ ch_pc # "RecursionError"
    /\ \A i, j \in 1..Len(ch_stack) :
          i # j => <<ch_stack[i].modpath, ch_stack[i].name>>
                   # <<ch_stack[j].modpath, ch_stack[j].name>>

\* C3: every module's usage set is closed under dotted prefix: with an origin,
\* the set holds each of its prefixes that ends before one of its dots.
C3_PrefixClosed ==
    \A m \in DOMAIN usage_map : \A o \in usage_map[m] :
        \A k \in 1..Len(o) : o[k] = "." => SubSeq(o, 1, k - 1) \in usage_map[m]

\* a scanned module that uses an origin of three segments
C3_Witness ==
    /\ pc = "scanned"
    /\ \E m \in DOMAIN usage_map : \E o \in usage_map[m] : Dot2(o)

\* the kept-name set S of a star import of module modpath: the oracle's names n
\* with modpath.n among the used origins
KeptSet(site, pkgpath, modpath) ==
    LET frompath == resolve_frompath(pkgpath, site.module, site.level)
        names == IF frompath \in DOMAIN star_names THEN star_names[frompath] ELSE <<>>
    IN  {n \in Elems(names) : Dotted(modpath, n) \in all_used}

ModuleOf(e) == modules[CHOOSE i \in 1..Len(modules) : modules[i].path = e.path]
StarSites(e) == Elems(CollectStarImports(Children(ModuleOf(e).node)))
Planned(e) == e.ret \in {"True", "False", "None"} /\ method \in {"replace", "qualify"}

\* C4: under a recognized strategy, a star import whose kept-name set is empty
\* gets an edit that removes the statement (its replacement is empty).
C4_EmptySiteDeleted ==
    \A i \in 1..Len(edits) : Planned(edits[i]) =>
        \A site \in StarSites(edits[i]) :
            KeptSet(site, ModuleOf(edits[i]).pkgpath, edits[i].modpath) = {} =>
                \E c \in Elems(edits[i].changes) :
                    c.old = site /\ node_to_text(c.new) = <<>>

\* whether a change's original text was missing from the buffer when its turn came
Mismatched(e) == e.changes # <<>> /\ ApplyChanges(e.before, e.changes, 1).status # "ok"

\* C5: when a change's original text is not found, the file stays as it was
\* before edit_module, whatever was already applied to the buffer, in both modes.
C5_MismatchWritesNothing ==
    \A i \in 1..Len(edits) : Mismatched(edits[i]) => files[edits[i].path] = edits[i].before

\* apply mode, a mismatch after an earlier change had altered the buffer
C5_Witness ==
    /\ ~dry_run
    /\ \E i \in 1..Len(edits) :
          /\ Mismatched(edits[i])
          /\ edits[i].buffer # edits[i].before
          /\ files[edits[i].path] = edits[i].before

\* the names of the text "n1, n2, ..." (split on ", ")
RECURSIVE SplitNames(_)
SplitNames(s) ==
    IF ~Contains(s, <<",", " ">>) THEN <<s>>
    ELSE LET i == CHOOSE k \in 1..Len(s) :
                     StartsAt(s, <<",", " ">>, k)
                     /\ \A j \in 1..(k - 1) : ~StartsAt(s, <<",", " ">>, j)
         IN  <<SubSeq(s, 1, i - 1)>> \o SplitNames(SubSeq(s, i + 2, Len(s)))

NoDuplicates(lst) == \A i, j \in 1..Len(lst) : i # j => lst[i] # lst[j]

\* "from <L dots><module> import "
NarrowHead(site) ==
    <<"f", "r", "o", "m", " ">> \o Dots(site.level)
    \o (IF IsNone(site.module) THEN <<>> ELSE Val(site.module))
    \o <<" ", "i", "m", "p", "o", "r", "t", " ">>

\* the replacement text planned for a star import, as a set (empty: no change)
PlannedTexts(e, site) == {node_to_text(c.new) : c \in {d \in Elems(e.changes) : d.old = site}}

\* the name list of the text planned for a star import when that text is
\* "from <L dots><module> import <list>"; the empty list when it is not
NarrowNames(e, site) ==
    IF Cardinality(PlannedTexts(e, site)) # 1 THEN <<>>
    ELSE LET t == CHOOSE x \in PlannedTexts(e, site) : TRUE
         IN  IF Upto(t, Len(NarrowHead(site))) = NarrowHead(site)
             THEN SplitNames(From(t, Len(NarrowHead(site))))
             ELSE <<>>

NarrowSites(e) ==
    {site \in StarSites(e) : KeptSet(site, ModuleOf(e).pkgpath, e.modpath) # {}}

\* C6 as stated: under 'replace', a star import with non-empty S is rewritten to
\* "from <L dots><module> import n1, n2, ..." whose names are exactly S, none
\* repeated, with the level and module spelling of the original.
C6_NarrowListsExactlyS ==
    method = "replace" =>
    \A i \in 1..Len(edits) : \A site \in NarrowSites(edits[i]) :
        LET S == KeptSet(site, ModuleOf(edits[i]).pkgpath, edits[i].modpath)
            names == NarrowNames(edits[i], site)
        IN  Elems(names) = S /\ NoDuplicates(names)

\* the local name an import statement with one alias binds (ImportMap's rules:
\* import X binds the top segment of X; an asname, or a from-import, binds itself)
BoundName(stmt) ==
    LET a == stmt.names[1]
    IN  IF ~IsNone(a.asname) THEN Val(a.asname)
        ELSE IF node_type(stmt) = "Import" THEN Split(a.name)[1]
        ELSE a.name

\* C7: under 'qualify', the name the rewritten import binds is the qualifier of
\* every rewritten access to a name that import provided.
C7_QualifierIsBoundName ==
    method = "qualify" =>
    \A i \in 1..Len(edits) :
        \A c \in Elems(edits[i].changes) : \A u \in Elems(edits[i].changes) :
            (/\ node_type(c.old) = "ImportFrom"
             /\ node_type(u.old) = "Name"
             /\ ProvidingImport(edits[i].provided, u.old.id) = c.old)
            => BoundName(Val(c.new)) = Val(u.new).value.id

\* the number of packages resolve_frompath can climb from pkgpath
Depth(pkgpath) == IF pkgpath = <<>> THEN 0 ELSE Len(Split(pkgpath))

\* C8: resolve_frompath called with a level beyond the depth of pkgpath signals
\* an error: it never returns a module path.
C8_LevelBeyondDepthRaises ==
    rf_args # <<>> /\ rf_args[3] > Depth(rf_args[1]) => rf_pc # "returned"

\* C9: a file that hits a mismatch makes edit_module return without raising, and
\* edit() goes on: the run is never left by an exception of such a file.
C9_EditContinuesAfterMismatch ==
    \A i \in 1..Len(edits) : Mismatched(edits[i]) =>
        /\ edits[i].ret = "False"
        /\ (pc = "raised" => i < Len(edits))
        /\ (pc = "done" => Len(edits) = Len(modules))

\* C10: with dry_run true no file is modified: every file holds what it held
\* when the catalog was read.
C10_DryRunWritesNothing ==
    dry_run => \A i \in 1..Len(modules) : files[modules[i].path] = modules[i].source

\* a dry run that ended with a file whose changes all validated and left the
\* buffer different from the file
C10_Witness ==
    /\ dry_run /\ pc = "done"
    /\ \E i \in 1..Len(edits) :
          /\ edits[i].ret = "True"
          /\ edits[i].buffer # edits[i].before
          /\ AnyLineEqual(edits[i].buffer, edits[i].before)

\* every binding and origin of map1 is in map2
MapWithin(map1, map2) ==
    \A m \in DOMAIN map1 :
        /\ m \in DOMAIN map2
        /\ \A n \in DOMAIN map1[m] :
              n \in DOMAIN map2[m] /\ map1[m][n] \subseteq map2[m][n]

\* C11: while ImportMap.scan_module runs over the modules the Origin Map only
\* grows; once that phase has finished no step changes it (the usage scans with
\* all their get_origins lookups, the planning and the edits leave it as it is).
C11_OriginMapFrozenAfterScan ==
    [][/\ MapWithin(import_map, import_map')
       /\ (pc # "scan_imports" => import_map' = import_map)]_vars

\* the run is over, the usage scans looked up a name that has no entry in the
\* Origin Map, and the map holds bindings
C11_Witness ==
    /\ pc = "done"
    /\ import_map # EmptyDict
    /\ \E i \in 1..Len(modules) :
          \E l \in UNION { ScanLookups(import_map, modules[i].modpath,
                                       Children(modules[i].node)[k]) :
                           k \in 1..Len(Children(modules[i].node)) } :
              l[1] \notin DOMAIN import_map \/ l[2] \notin DOMAIN import_map[l[1]]

\* the module paths the star imports of the tree resolve to, with repetitions:
\* one get_star_names call each in the import scan, one each in the planner
StarTargets ==
    UNION { { <<i, site>> : site \in Elems(CollectStarImports(Children(modules[i].node))) } :
            i \in 1..Len(modules) }

\* C12: import_module is called at most once per module path, whatever the
\* number of get_star_names calls; a path whose load failed has the empty name
\* list from then on, and every loaded path has its list in the cache.
C12_LoadsOncePerPath ==
    /\ NoDuplicates(loads)
    /\ Elems(loads) = DOMAIN star_names
    /\ \A m \in DOMAIN star_names :
          m \notin DOMAIN world.exports => star_names[m] = <<>>

\* the run went through scan and edit although a load failed, two star imports
\* name the path that failed, and the planner asked for it again
C12_Witness ==
    /\ pc = "done" /\ method = "replace"
    /\ \E m \in Elems(loads) :
          /\ m \notin DOMAIN world.exports
          /\ Cardinality({t \in StarTargets :
                 resolve_frompath(modules[t[1]].pkgpath, t[2].module, t[2].level) = m}) >= 2
          /\ \E i \in 1..Len(edits) : \E k \in 1..Len(edits[i].provided) :
                resolve_frompath(ModuleOf(edits[i]).pkgpath, edits[i].provided[k].node.module,
                                 edits[i].provided[k].node.level) = m

\* the segments of the module fragment of a relative import (none when the
\* fragment is missing or empty)
Fragment(relpath) ==
    IF ~IsNone(relpath) /\ Val(relpath) # <<>> THEN Split(Val(relpath)) ELSE <<>>

\* C13 as stated: a relative import of level L >= 1 in a module with package
\* path P resolves to P with L trailing segments stripped, followed by the
\* module fragment when it is not empty.
C13_StripsOneSegmentPerLevel ==
    rf_pc = "returned" /\ rf_args[3] >= 1 =>
        rf_result = Join(DropLast(Split(rf_args[1]), rf_args[3]) \o Fragment(rf_args[2]))

\* C13 amended: ... resolves to P with L - 1 trailing segments stripped (level 1
\* keeps P whole; nothing of P is left when it has no more than L - 1 segments),
\* followed by the module fragment when it is not empty, joined by dots.
C13_StripsOneSegmentPerLevelAboveFirst ==
    rf_pc = "returned" /\ rf_args[3] >= 1 =>
        rf_result = Join(DropLast(Split(rf_args[1]), rf_args[3] - 1) \o Fragment(rf_args[2]))

\* "from ..m import y" in a module of package a.b.c has been resolved to a.b.m
C13_Witness ==
    /\ rf_pc = "returned"
    /\ rf_args = << <<"a", ".", "b", ".", "c">>, Some(<<"m">>), 2 >>
    /\ rf_result = <<"a", ".", "b", ".", "m">>

\* the Import statements scan_imports reaches below a list of nodes
RECURSIVE ImportStatements(_)
ImportStatements(nodes) ==
    IF nodes = <<>> THEN {}
    ELSE (CASE node_type(nodes[1]) = "Import" -> {nodes[1]}
            [] node_type(nodes[1]) = "ImportFrom" -> {}
            [] OTHER -> ImportStatements(Children(nodes[1])))
         \cup ImportStatements(Tail(nodes))

\* <<i, b>>: module i of the catalog holds "import X as Y" with alias b = (X, Y)
AliasImports ==
    UNION { UNION { { <<i, stmt.names[k]>> :
                      k \in {j \in 1..Len(stmt.names) : ~IsNone(stmt.names[j].asname)} } :
                    stmt \in ImportStatements(Children(modules[i].node)) } :
            i \in 1..Len(modules) }

\* the <<name, origin>> pairs of a module's bucket
BucketBindings(map, m) ==
    IF m \in DOMAIN map
    THEN UNION { { <<n, o>> : o \in map[m][n] } : n \in DOMAIN map[m] }
    ELSE {}

\* what scanning "import X as Y" (alias b) in module m adds to m's bucket of the
\* Origin Map as it stands
AddedByAlias(m, b) ==
    BucketBindings(ScanImportBindings(TheImportMap, world, m, <<b>>).map, m)
    \ BucketBindings(import_map, m)

\* the binding Python makes in a package m when a submodule on the path X below
\* it is imported: s -> m.s, for the segment s of X that follows m
PackageBinding(m, X) ==
    LET mp == Split(m)
        xp == Split(X)
    IN  IF Len(mp) < Len(xp) /\ SubSeq(xp, 1, Len(mp)) = mp
           /\ find_module(world, Dotted(m, xp[Len(mp) + 1]))
        THEN { <<xp[Len(mp) + 1], Dotted(m, xp[Len(mp) + 1])>> }
        ELSE {}

\* C14 as stated: scanning "import X as Y" in module m adds to m's bucket the
\* binding Y -> X and nothing else, for every scanned module m.
C14_AliasImportBindsOnlyAlias ==
    \A t \in AliasImports :
        LET m == modules[t[1]].modpath
            b == t[2]
        IN  /\ <<Val(b.asname), b.name>>
                  \in BucketBindings(ScanImportBindings(TheImportMap, world, m, <<b>>).map, m)
            /\ AddedByAlias(m, b) \subseteq { <<Val(b.asname), b.name>> }

\* C14 amended: ... adds to m's bucket the binding Y -> X and nothing else,
\* except when m is itself a package on the path X (X = m.s...) and the module
\* m.s exists: then the statement also adds s -> m.s to m's bucket.
C14_AliasImportBindsAliasAndSubmodule ==
    \A t \in AliasImports :
        LET m == modules[t[1]].modpath
            b == t[2]
        IN  /\ <<Val(b.asname), b.name>>
                  \in BucketBindings(ScanImportBindings(TheImportMap, world, m, <<b>>).map, m)
            /\ AddedByAlias(m, b)
                  \subseteq { <<Val(b.asname), b.name>> } \cup PackageBinding(m, b.name)

\* after the scan of a tree with "import p.s.a as r" in the package p.s and
\* "import p.s.a as q" in the module p.b: p.s binds r and a, p.b binds q and
\* not p
C14_Witness ==
    /\ pc = "scanned"
    /\ <<"p", ".", "s">> \in DOMAIN import_map
    /\ BucketBindings(import_map, <<"p", ".", "s">>)
          = { << <<"r">>, <<"p", ".", "s", ".", "a">> >>,
              << <<"a">>, <<"p", ".", "s", ".", "a">> >> }
    /\ << <<"q">>, <<"p", ".", "s", ".", "a">> >>
          \in BucketBindings(import_map, <<"p", ".", "b">>)
    /\ <<"p">> \notin DOMAIN import_map[<<"p", ".", "b">>]

\* C15: in apply mode, a file whose changes all validated (edit_module returned
\* True) holds the edited line buffer afterwards, also when every line changed.
C15_ApplyWritesBuffer ==
    ~dry_run =>
    \A i \in 1..Len(edits) :
        edits[i].ret = "True" => files[edits[i].path] = edits[i].buffer

\* a line with the text of change c's old node, at its recorded column, replaced
\* by the text of its new node, and nothing else touched
RewrittenAt(line, c) ==
    Upto(line, c.old.col_offset)
    \o node_to_text(c.new)
    \o From(line, c.old.col_offset + Len(node_to_text(Some(c.old))))

\* the changes todo (indices into changes) made to the lines one by one, the
\* rightmost of the last line first, so that no recorded column moves
RECURSIVE RewrittenBuffer(_, _, _)
RewrittenBuffer(lines, changes, todo) ==
    IF todo = {} THEN lines
    ELSE LET k == CHOOSE x \in todo : \A y \in todo :
                      \/ changes[y].old.lineno < changes[x].old.lineno
                      \/ /\ changes[y].old.lineno = changes[x].old.lineno
                         /\ changes[y].old.col_offset <= changes[x].old.col_offset
         IN  RewrittenBuffer(
                 [lines EXCEPT ![changes[k].old.lineno] = RewrittenAt(@, changes[k])],
                 changes, todo \ {k})

\* the lines of an edit that hold a use of a star-provided name
UseLines(e) ==
    { e.changes[k].old.lineno : k \in {j \in 1..Len(e.changes) :
                                          node_type(e.changes[j].old) = "Name"} }

\* C16: under 'qualify', once every change of a file has validated, each line
\* with uses of provided names is the original line with each use n replaced by
\* Q.n, once, at its own position, and the rest of the line as it was.
C16_QualifiedExactlyOnce ==
    method = "qualify" =>
    \A i \in 1..Len(edits) :
        edits[i].ret = "True" =>
            \A l \in UseLines(edits[i]) :
                edits[i].buffer[l]
                  = RewrittenBuffer(edits[i].before, edits[i].changes,
                                    1..Len(edits[i].changes))[l]

\* the ImportFrom statements below a list of nodes
RECURSIVE ImportFromStatements(_)
ImportFromStatements(nodes) ==
    IF nodes = <<>> THEN {}
    ELSE (CASE node_type(nodes[1]) = "ImportFrom" -> {nodes[1]}
            [] node_type(nodes[1]) = "Import" -> {}
            [] OTHER -> ImportFromStatements(Children(nodes[1])))
         \cup ImportFromStatements(Tail(nodes))

\* some module of the tree other than module i holds "from <module i> import n"
ImportedByName(i, n) ==
    \E j \in 1..Len(modules) :
        /\ j # i
        /\ \E stmt \in ImportFromStatements(Children(modules[j].node)) :
              /\ resolve_frompath(modules[j].pkgpath, stmt.module, stmt.level)
                    = modules[i].modpath
              /\ \E k \in 1..Len(stmt.names) : stmt.names[k].name = n

\* the names a star import of module i brings into it
BroughtIn(i, site) ==
    LET frompath == resolve_frompath(modules[i].pkgpath, site.module, site.level)
    IN  IF frompath \in DOMAIN star_names THEN Elems(star_names[frompath]) ELSE {}

\* C17: once the used origins are known, a name that a star import brings into
\* module m and that another module imports from m by name is in the kept set
\* of that star import, loaded somewhere or not.
C17_ImportedByNameIsKept ==
    pc \in {"edit", "done", "raised"} =>
    \A i \in 1..Len(modules) :
        \A site \in Elems(CollectStarImports(Children(modules[i].node))) :
            \A n \in BroughtIn(i, site) :
                ImportedByName(i, n)
                => n \in KeptSet(site, modules[i].pkgpath, modules[i].modpath)

\* the origins the Origin Map gives for origin o read as module.name
OriginSuccessors(map, o) ==
    IF HasDot(o) THEN ImportMapGetOrigins(map, RSplit(o)[1], RSplit(o)[2]) ELSE {}

\* the origins reachable from a set of origins through the Origin Map, the set
\* itself included (a breadth-first closure)
RECURSIVE ReachableFrom(_, _, _)
ReachableFrom(map, frontier, seen) ==
    IF frontier = {} THEN seen
    ELSE LET next == UNION { OriginSuccessors(map, o) : o \in frontier }
         IN  ReachableFrom(map, next \ (seen \cup frontier), seen \cup frontier)

\* the origins a load expression of module c reaches: a name n reaches what c.n
\* leads to; expr.attr reaches what p.attr leads to for every p that expr reaches
RECURSIVE LoadReaches(_, _, _)
LoadReaches(map, c, node) ==
    CASE node_type(node) = "Name" /\ node.ctx = "Load" ->
             ReachableFrom(map, {Dotted(c, node.id)}, {})
      [] node_type(node) = "Attribute" /\ node.ctx = "Load" ->
             ReachableFrom(map, { Dotted(p, node.attr) :
                                  p \in LoadReaches(map, c, node.value) }, {})
      [] OTHER -> {}

\* every node at any depth below a list of nodes
RECURSIVE Descendants(_)
Descendants(nodes) ==
    UNION { {nodes[k]} \cup Descendants(Children(nodes[k])) : k \in 1..Len(nodes) }

\* <<j, node>>: a load expression of module j that reaches origin o
LoadsReaching(o) ==
    UNION { { <<j, node>> : node \in { x \in Descendants(Children(modules[j].node)) :
                                         o \in LoadReaches(import_map, modules[j].modpath, x) } } :
            j \in 1..Len(modules) }

\* C18: once the used origins are known, a name n that a star import brings
\* into module m and that some load expression of the tree reaches as m.n has
\* m.n among the used origins and is among the names the planner keeps for that
\* star import.
C18_ReachedNameIsKept ==
    pc \in {"edit", "done", "raised"} =>
    \A i \in 1..Len(modules) :
        \A site \in Elems(CollectStarImports(Children(modules[i].node))) :
            \A n \in BroughtIn(i, site) :
                LoadsReaching(Dotted(modules[i].modpath, n)) # {} =>
                    /\ Dotted(modules[i].modpath, n) \in all_used
                    /\ n \in KeptSet(site, modules[i].pkgpath, modules[i].modpath)
                    /\ \A k \in 1..Len(edits) :
                          edits[k].path = modules[i].path /\ InProvided(edits[k].provided, site)
                          => n \in Elems(ProvidedFor(edits[k].provided, site))

\* the planner has kept, for a star import of module m, a name that only a load
\* in another module reaches
C18_Witness ==
    /\ pc = "done"
    /\ \E i \in 1..Len(modules) :
          \E site \in Elems(CollectStarImports(Children(modules[i].node))) :
              \E n \in BroughtIn(i, site) :
                  /\ LoadsReaching(Dotted(modules[i].modpath, n)) # {}
                  /\ \A t \in LoadsReaching(Dotted(modules[i].modpath, n)) : t[1] # i
                  /\ \E k \in 1..Len(edits) :
                        /\ edits[k].path = modules[i].path
                        /\ InProvided(edits[k].provided, site)
                        /\ n \in Elems(ProvidedFor(edits[k].provided, site))

\* whether origin o is origin r or one of its dotted prefixes
IsPrefixOf(o, r) ==
    o = r \/ (Len(o) < Len(r) /\ SubSeq(r, 1, Len(o)) = o /\ r[Len(o) + 1] = ".")

\* the modules UsageMap.scan_module has been called for
UsageScanned ==
    IF pc = "scan_imports" THEN {}
    ELSE IF pc = "scan_usage" THEN 1..(idx - 1)
    ELSE 1..Len(modules)

\* C19: after UsageMap.scan_module(m, tree), m.n is in usage_map[m] for every
\* name n loaded anywhere in the tree, at any depth; and everything in
\* usage_map[m] comes from a load expression of the tree (an origin it reaches,
\* or a prefix of one), so a name that is only stored contributes nothing.
C19_EveryLoadedNameIsUsed ==
    \A i \in UsageScanned :
        LET m     == modules[i].modpath
            nodes == Descendants(Children(modules[i].node))
        IN  /\ m \in DOMAIN usage_map
            /\ \A x \in nodes :
                  node_type(x) = "Name" /\ x.ctx = "Load" => Dotted(m, x.id) \in usage_map[m]
            /\ \A o \in usage_map[m] :
                  \E x \in nodes : \E r \in LoadReaches(import_map, m, x) : IsPrefixOf(o, r)

\* a scanned module that loads names inside the call under an attribute access
\* (the base of the attribute is neither a name nor an attribute) and stores a
\* name it never loads, which is not in its usage set
C19_Witness ==
    \E i \in UsageScanned :
        LET m     == modules[i].modpath
            nodes == Descendants(Children(modules[i].node))
        IN  /\ \E a \in nodes :
                  /\ node_type(a) = "Attribute"
                  /\ node_type(a.value) \notin {"Name", "Attribute"}
                  /\ \E x \in Descendants(<<a.value>>) :
                        /\ node_type(x) = "Name" /\ x.ctx = "Load"
                        /\ Dotted(m, x.id) \in usage_map[m]
            /\ \E y \in nodes :
                  /\ node_type(y) = "Name" /\ y.ctx = "Store"
                  /\ Dotted(m, y.id) \notin usage_map[m]

====
